---- MODULE Spec2Model ----
(***************************************************************************)
(* Mapping & entity materialization engine of ThIheb/Internship.           *)
(*                                                                         *)
(* src/script.py and src/script1.py are two variants of the same engine:   *)
(* both read mapping rules and instance rows and add triples to one        *)
(* rdflib graph.  The variable "variant" selects which program runs.       *)
(*                                                                         *)
(* Strings are sequences of one-character strings, so that the regular    *)
(* expressions, the stripping and the concatenations of the source are     *)
(* computed character by character.                                        *)
(***************************************************************************)
EXTENDS Integers, Sequences, FiniteSets, TLC

\* ------------------------------------------------------------------ characters

Digits == {"0", "1", "2", "3", "4", "5", "6", "7", "8", "9"}

DigitSeq == <<"0", "1", "2", "3", "4", "5", "6", "7", "8", "9">>

LowerSeq == <<"a", "b", "c", "d", "e", "f", "g", "h", "i", "j", "k", "l", "m", "n", "o", "p", "q", "r", "s", "t", "u", "v", "w", "x", "y", "z">>

UpperSeq == <<"A", "B", "C", "D", "E", "F", "G", "H", "I", "J", "K", "L", "M", "N", "O", "P", "Q", "R", "S", "T", "U", "V", "W", "X", "Y", "Z">>

LowerLetters == {LowerSeq[i] : i \in 1..26}

UpperLetters == {UpperSeq[i] : i \in 1..26}

\* Python's \s, restricted to the whitespace a spreadsheet cell holds
WhiteSpace == {" ", "\t", "\n"}

IsDigit(c) == c \in Digits

\* Python's \w
IsWord(c) == c \in Digits \cup LowerLetters \cup UpperLetters \cup {"_"}

\* str.lower() on one character
LowerChar(c) ==
    IF c \in UpperLetters
    THEN LowerSeq[CHOOSE i \in 1..26 : UpperSeq[i] = c]
    ELSE c

\* ------------------------------------------------------------------ strings

\* Python's None, and pandas' NaN of an empty cell: two tokens no string equals
None == <<"None">>

NaN == <<"NaN">>

\* pd.isna / pd.notna: an absent column (None) and an empty cell (NaN) are both missing
isna(v) == v = None \/ v = NaN

Lower(s) == [i \in 1..Len(s) |-> LowerChar(s[i])]

AllDigits(s) == \A i \in 1..Len(s) : IsDigit(s[i])

StartsWith(s, p) == Len(s) >= Len(p) /\ SubSeq(s, 1, Len(p)) = p

\* the positions at which sub occurs in s
Occurrences(s, sub) ==
    {i \in 1..(Len(s) - Len(sub) + 1) : s[i] = sub[1] /\ SubSeq(s, i, i + Len(sub) - 1) = sub}

\* Python's  sub in s
Contains(s, sub) == Len(sub) = 0 \/ Occurrences(s, sub) # {}

Min(S) == CHOOSE x \in S : \A y \in S : x <= y

Max(S) == CHOOSE x \in S : \A y \in S : x >= y

\* str.lstrip(chars) and str.rstrip(chars) for a set of characters
LStripSet(s, cs) ==
    LET keep == {i \in 1..Len(s) : s[i] \notin cs}
    IN  IF keep = {} THEN <<>> ELSE SubSeq(s, Min(keep), Len(s))

RStripSet(s, cs) ==
    LET keep == {i \in 1..Len(s) : s[i] \notin cs}
    IN  IF keep = {} THEN <<>> ELSE SubSeq(s, 1, Max(keep))

StripSet(s, cs) == RStripSet(LStripSet(s, cs), cs)

\* str.strip()
Strip(s) == StripSet(s, WhiteSpace)

\* str.split(c, 1): the part before the first c and the part after it
BeforeFirst(s, c) ==
    LET at == {i \in 1..Len(s) : s[i] = c}
    IN  IF at = {} THEN s ELSE SubSeq(s, 1, Min(at) - 1)

AfterFirst(s, c) ==
    LET at == {i \in 1..Len(s) : s[i] = c}
    IN  IF at = {} THEN <<>> ELSE SubSeq(s, Min(at) + 1, Len(s))

\* str.split(c): every part, empty ones included
RECURSIVE Split(_, _)
Split(s, c) ==
    IF c \notin {s[i] : i \in 1..Len(s)}
    THEN <<s>>
    ELSE <<BeforeFirst(s, c)>> \o Split(AfterFirst(s, c), c)

\* str.replace(a, b) for single characters
ReplaceChar(s, a, b) == [i \in 1..Len(s) |-> IF s[i] = a THEN b ELSE s[i]]

\* ------------------------------------------------------------------ numbers

DigitValue(c) == (CHOOSE i \in 1..10 : DigitSeq[i] = c) - 1

\* the value of a string of digits
RECURSIVE DigitsValue(_)
DigitsValue(s) ==
    IF Len(s) = 0 THEN 0
    ELSE 10 * DigitsValue(SubSeq(s, 1, Len(s) - 1)) + DigitValue(s[Len(s)])

\* str(n) for n >= 0
RECURSIVE NatStr(_)
NatStr(n) ==
    IF n < 10 THEN <<DigitSeq[n + 1]>>
    ELSE NatStr(n \div 10) \o <<DigitSeq[(n % 10) + 1]>>

\* f"{n:03d}" for n >= 0
Pad3(n) ==
    LET t == NatStr(n)
    IN  IF Len(t) >= 3 THEN t ELSE [i \in 1..(3 - Len(t)) |-> "0"] \o t

\* f"{n:02d}" for n >= 0
Pad2(n) ==
    LET t == NatStr(n)
    IN  IF Len(t) >= 2 THEN t ELSE <<"0">> \o t

\* ------------------------------------------------------------------ namespaces and terms

BASE_NS == <<"h", "t", "t", "p", ":", "/", "/", "e", "x", "a", "m", "p", "l", "e", ".", "o", "r", "g", "/">>

RDF == <<"h", "t", "t", "p", ":", "/", "/", "w", "w", "w", ".", "w", "3", ".", "o", "r", "g", "/", "1", "9", "9", "9", "/", "0", "2", "/", "2", "2", "-", "r", "d", "f", "-", "s", "y", "n", "t", "a", "x", "-", "n", "s", "#">>

RDFS == <<"h", "t", "t", "p", ":", "/", "/", "w", "w", "w", ".", "w", "3", ".", "o", "r", "g", "/", "2", "0", "0", "0", "/", "0", "1", "/", "r", "d", "f", "-", "s", "c", "h", "e", "m", "a", "#">>

XSD == <<"h", "t", "t", "p", ":", "/", "/", "w", "w", "w", ".", "w", "3", ".", "o", "r", "g", "/", "2", "0", "0", "1", "/", "X", "M", "L", "S", "c", "h", "e", "m", "a", "#">>

OWL == <<"h", "t", "t", "p", ":", "/", "/", "w", "w", "w", ".", "w", "3", ".", "o", "r", "g", "/", "2", "0", "0", "2", "/", "0", "7", "/", "o", "w", "l", "#">>

NS_GN == <<"h", "t", "t", "p", ":", "/", "/", "w", "w", "w", ".", "g", "e", "o", "n", "a", "m", "e", "s", ".", "o", "r", "g", "/", "o", "n", "t", "o", "l", "o", "g", "y", "#">>

WGS84 == <<"h", "t", "t", "p", ":", "/", "/", "w", "w", "w", ".", "w", "3", ".", "o", "r", "g", "/", "2", "0", "0", "3", "/", "0", "1", "/", "g", "e", "o", "/", "w", "g", "s", "8", "4", "_", "p", "o", "s", "#">>

ns_rico == BASE_NS \o <<"r", "i", "c", "o", "#">>

ns_ident == BASE_NS \o <<"i", "d", "e", "n", "t", "i", "f", "i", "e", "r", "/">>

ns_title == BASE_NS \o <<"t", "i", "t", "l", "e", "/">>

RDF_type == RDF \o <<"t", "y", "p", "e">>

RDFS_label == RDFS \o <<"l", "a", "b", "e", "l">>

OWL_sameAs == OWL \o <<"s", "a", "m", "e", "A", "s">>

XSD_string == XSD \o <<"s", "t", "r", "i", "n", "g">>

\* rdflib terms: the object of a triple is a URIRef or a Literal with an optional datatype
URIRef(s) == [k |-> "uri", v |-> s, dt |-> None]

Literal(s, datatype) == [k |-> "lit", v |-> s, dt |-> datatype]

\* final_obj_term = None
NoTerm == [k |-> "none", v |-> <<>>, dt |-> None]

\* bool(term): None, an empty URIRef and an empty string literal are false
Truthy(term) == Len(term.v) > 0

\* ------------------------------------------------------------------ utility functions

\* re.sub(r"\s+", "_", s)
RECURSIVE CollapseSpace(_)
CollapseSpace(s) ==
    IF Len(s) = 0 THEN <<>>
    ELSE IF s[1] \in WhiteSpace
         THEN <<"_">> \o CollapseSpace(LStripSet(s, WhiteSpace))
         ELSE <<s[1]>> \o CollapseSpace(Tail(s))

\* RemoveUnsafe with count=1: only the first unsafe character is removed
RemoveUnsafeOnce(s) ==
    LET at == {i \in 1..Len(s) : ~(IsWord(s[i]) \/ s[i] \in WhiteSpace \/ s[i] = "-")}
    IN  IF at = {} THEN s
        ELSE SubSeq(s, 1, Min(at) - 1) \o SubSeq(s, Min(at) + 1, Len(s))

\* re.sub(r"[^\w\s-]", "", s)
RemoveUnsafe(s) == SelectSeq(s, LAMBDA c : IsWord(c) \/ c \in WhiteSpace \/ c = "-")

make_safe_uri_label(value) == CollapseSpace(RemoveUnsafe(Strip(value)))

\* re.match(r"^\d{n}$", s)
IsDigitsN(s, n) == Len(s) = n /\ AllDigits(s)

\* IsPairN with an end of either width
IsPairN_mixed(s, n) ==
    /\ Len(s) > n + 1
    /\ s[n + 1] = "-"
    /\ AllDigits(SubSeq(s, 1, n))
    /\ Len(s) - n - 1 \in {4, 8}
    /\ AllDigits(SubSeq(s, n + 2, Len(s)))

\* re.match(r"^\d{n}-\d{n}$", s)
IsPairN(s, n) ==
    /\ Len(s) = 2 * n + 1
    /\ s[n + 1] = "-"
    /\ AllDigits(SubSeq(s, 1, n))
    /\ AllDigits(SubSeq(s, n + 2, 2 * n + 1))

\* returns <<start, end>>
parse_normalized_dates(date_str) ==
    LET s == Strip(date_str)
    IN  IF IsPairN(s, 8) \/ IsPairN(s, 4)
        THEN <<Strip(BeforeFirst(s, "-")), Strip(AfterFirst(s, "-"))>>
        ELSE IF IsDigitsN(s, 8) \/ IsDigitsN(s, 4)
             THEN <<Strip(s), None>>
             ELSE <<None, None>>

DaysInMonth(y, m) ==
    IF m = 2 THEN (IF (y % 4 = 0 /\ y % 100 # 0) \/ y % 400 = 0 THEN 29 ELSE 28)
    ELSE IF m \in {4, 6, 9, 11} THEN 30 ELSE 31

\* the directive %m of strptime: 1[0-2]|0[1-9]|[1-9], here on two characters
MonthField(t) ==
    \/ t[1] = "1" /\ t[2] \in {"0", "1", "2"}
    \/ t[1] = "0" /\ t[2] \in Digits \ {"0"}

\* the directive %d of strptime: 3[01]|[12]\d|0[1-9]|[1-9]| [1-9], on two characters
DayField(t) ==
    \/ t[1] = "3" /\ t[2] \in {"0", "1"}
    \/ t[1] \in {"1", "2"} /\ t[2] \in Digits
    \/ t[1] \in {"0", " "} /\ t[2] \in Digits \ {"0"}

DayValue(t) == IF t[1] = " " THEN DigitValue(t[2]) ELSE DigitsValue(t)

\* datetime.strptime(s, "%Y%m%d") succeeds on the 8 characters of s
StrptimeOk(s) ==
    /\ AllDigits(SubSeq(s, 1, 4))
    /\ MonthField(SubSeq(s, 5, 6))
    /\ DayField(SubSeq(s, 7, 8))
    /\ DigitsValue(SubSeq(s, 1, 4)) >= 1
    /\ DayValue(SubSeq(s, 7, 8))
           <= DaysInMonth(DigitsValue(SubSeq(s, 1, 4)), DigitsValue(SubSeq(s, 5, 6)))

\* dt_obj.strftime("%Y-%m-%d"): the year is not zero-padded
Strftime(s) ==
    NatStr(DigitsValue(SubSeq(s, 1, 4))) \o <<"-">> \o SubSeq(s, 5, 6)
        \o <<"-">> \o Pad2(DayValue(SubSeq(s, 7, 8)))

\* int(s) succeeds on the 4 characters of s: optional sign, digits, single
\* underscores between digits, surrounding whitespace
RECURSIVE IntBody(_)
IntBody(s) ==
    /\ Len(s) > 0
    /\ IsDigit(s[1])
    /\ \/ Len(s) = 1
       \/ IntBody(Tail(s))
       \/ Len(s) > 2 /\ s[2] = "_" /\ IntBody(SubSeq(s, 3, Len(s)))

IntOk(s) ==
    LET t == Strip(s)
        u == IF Len(t) > 0 /\ t[1] \in {"+", "-"} THEN Tail(t) ELSE t
    IN  IntBody(u)

\* returns <<value, datatype>>
format_date_for_xsd(date_str) ==
    IF date_str = None \/ Len(date_str) = 0 THEN <<None, None>>
    ELSE IF Len(date_str) = 8
         THEN IF StrptimeOk(date_str) THEN <<Strftime(date_str), XSD \o <<"d", "a", "t", "e">>>> ELSE <<None, None>>
         ELSE IF Len(date_str) = 4
              THEN IF IntOk(date_str) THEN <<date_str, XSD \o <<"g", "Y", "e", "a", "r">>>> ELSE <<None, None>>
              ELSE <<None, None>>

\* ------------------------------------------------------------------ vocabulary

RICO_LOCATION_URI == ns_rico \o <<"i", "s", "A", "s", "s", "o", "c", "i", "a", "t", "e", "d", "W", "i", "t", "h", "P", "l", "a", "c", "e">>

RICO_ASSOC_PLACE_URI == ns_rico \o <<"i", "s", "A", "s", "s", "o", "c", "i", "a", "t", "e", "d", "W", "i", "t", "h", "P", "l", "a", "c", "e">>

RICO_HAS_TITLE_URI == ns_rico \o <<"h", "a", "s", "O", "r", "H", "a", "d", "T", "i", "t", "l", "e">>

RICO_TITLE_CLASS == ns_rico \o <<"T", "i", "t", "l", "e">>

RICO_HAS_IDENTIFIER_URI == ns_rico \o <<"h", "a", "s", "O", "r", "H", "a", "d", "I", "d", "e", "n", "t", "i", "f", "i", "e", "r">>

RICO_IDENTIFIER_CLASS == ns_rico \o <<"I", "d", "e", "n", "t", "i", "f", "i", "e", "r">>

RICO_DATE_PREDICATE == ns_rico \o <<"d", "a", "t", "e", "O", "r", "D", "a", "t", "e", "R", "a", "n", "g", "e">>

RICO_HAS_BEGIN_DATE == ns_rico \o <<"h", "a", "s", "B", "e", "g", "i", "n", "n", "i", "n", "g", "D", "a", "t", "e">>

RICO_HAS_END_DATE == ns_rico \o <<"h", "a", "s", "E", "n", "d", "D", "a", "t", "e">>

RICO_HAS_CREATION_DATE == ns_rico \o <<"h", "a", "s", "C", "r", "e", "a", "t", "i", "o", "n", "D", "a", "t", "e">>

RICO_EXPRESSED_DATE == ns_rico \o <<"e", "x", "p", "r", "e", "s", "s", "e", "d", "D", "a", "t", "e">>

RICO_NORMALIZED_DATE == ns_rico \o <<"n", "o", "r", "m", "a", "l", "i", "z", "e", "d", "D", "a", "t", "e", "V", "a", "l", "u", "e">>

RICO_Person == ns_rico \o <<"P", "e", "r", "s", "o", "n">>

RICO_Agent == ns_rico \o <<"A", "g", "e", "n", "t">>

RICO_Place == ns_rico \o <<"P", "l", "a", "c", "e">>

RICO_Date == ns_rico \o <<"D", "a", "t", "e">>

RICO_hasSender == ns_rico \o <<"h", "a", "s", "S", "e", "n", "d", "e", "r">>

RICO_isAssociatedWith == ns_rico \o <<"i", "s", "A", "s", "s", "o", "c", "i", "a", "t", "e", "d", "W", "i", "t", "h">>

GN_featureClass == NS_GN \o <<"f", "e", "a", "t", "u", "r", "e", "C", "l", "a", "s", "s">>

GN_featureCode == NS_GN \o <<"f", "e", "a", "t", "u", "r", "e", "C", "o", "d", "e">>

PERSON_PREDICATES ==
    { RICO_hasSender, ns_rico \o <<"h", "a", "s", "R", "e", "c", "i", "p", "i", "e", "n", "t">>, RICO_isAssociatedWith,
      ns_rico \o <<"p", "e", "r", "s", "o", "n", "I", "s", "T", "a", "r", "g", "e", "t", "O", "f">>, ns_rico \o <<"h", "a", "s", "A", "g", "e", "n", "t">>, ns_rico \o <<"h", "a", "s", "C", "r", "e", "a", "t", "o", "r">> }

DATE_PREDICATES == {RICO_HAS_BEGIN_DATE, RICO_HAS_END_DATE, RICO_HAS_CREATION_DATE}

PLACE_PREDICATES == {RICO_LOCATION_URI, RICO_ASSOC_PLACE_URI}

LITERAL_TO_ENTITY_PREDICATES ==
    {ns_rico \o <<"i", "s", "A", "s", "s", "o", "c", "i", "a", "t", "e", "d", "W", "i", "t", "h", "P", "l", "a", "c", "e">>, RICO_ASSOC_PLACE_URI} \cup DATE_PREDICATES

\* script1.py also turns senders and associated agents into entities here
LITERAL_TO_ENTITY_PREDICATES1 ==
    LITERAL_TO_ENTITY_PREDICATES \cup {RICO_hasSender, RICO_isAssociatedWith}

STRUCTURAL_URI_PREDICATES == {ns_rico \o <<"i", "s", "D", "i", "r", "e", "c", "t", "l", "y", "I", "n", "c", "l", "u", "d", "e", "d", "I", "n">>, ns_rico \o <<"i", "s", "I", "n", "c", "l", "u", "d", "e", "d", "I", "n">>}

RANGE_PREDICATES == {ns_rico \o <<"d", "i", "r", "e", "c", "t", "l", "y", "I", "n", "c", "l", "u", "d", "e", "s">>, ns_rico \o <<"i", "n", "c", "l", "u", "d", "e", "s">>}

\* the prefixes bound before the first sheet is read
InitialPrefixes ==
    (<<"r", "d", "f">> :> RDF) @@ (<<"r", "d", "f", "s">> :> RDFS) @@ (<<"x", "s", "d">> :> XSD) @@ (<<"o", "w", "l">> :> OWL)
    @@ (<<"r", "i", "c", "o">> :> ns_rico)
    @@ (<<"p", "l", "a", "c", "e">> :> BASE_NS \o <<"p", "l", "a", "c", "e", "/">>)
    @@ (<<"d", "a", "t", "e">> :> BASE_NS \o <<"d", "a", "t", "e", "/">>)
    @@ (<<"i", "d", "e", "n", "t", "i", "f", "i", "e", "r">> :> ns_ident)
    @@ (<<"t", "i", "t", "l", "e">> :> ns_title)
    @@ (<<"p", "e", "r", "s", "o", "n">> :> BASE_NS \o <<"p", "e", "r", "s", "o", "n", "/">>)
    @@ (<<"a", "g", "e", "n", "t">> :> BASE_NS \o <<"a", "g", "e", "n", "t", "/">>)

InitialPrefixes1 ==
    (<<"r", "d", "f">> :> RDF) @@ (<<"r", "d", "f", "s">> :> RDFS) @@ (<<"x", "s", "d">> :> XSD) @@ (<<"o", "w", "l">> :> OWL)
    @@ (<<"r", "i", "c", "o">> :> ns_rico)
    @@ (<<"p", "l", "a", "c", "e">> :> BASE_NS \o <<"p", "l", "a", "c", "e", "/">>)
    @@ (<<"d", "a", "t", "e">> :> BASE_NS \o <<"d", "a", "t", "e", "/">>)
    @@ (<<"i", "d", "e", "n", "t", "i", "f", "i", "e", "r">> :> ns_ident)

\* ------------------------------------------------------------------ namespace resolver

HasPrefix(term) == Contains(term, <<":">>) /\ ~StartsWith(term, <<"h", "t", "t", "p">>)

\* get_namespace that binds the prefix whether it is known or not
get_namespace_registry_rebinding(reg, term) ==
    IF HasPrefix(term)
    THEN [p \in DOMAIN reg \cup {BeforeFirst(term, ":")} |->
            IF p = BeforeFirst(term, ":") THEN BASE_NS \o p \o <<"#">> ELSE reg[p]]
    ELSE reg

\* the registry after get_namespace(term)
get_namespace_registry(reg, term) ==
    IF HasPrefix(term) /\ BeforeFirst(term, ":") \notin DOMAIN reg
    THEN reg @@ (BeforeFirst(term, ":") :> (BASE_NS \o BeforeFirst(term, ":") \o <<"#">>))
    ELSE reg

\* the value get_namespace(term) returns
get_namespace(reg, term) ==
    IF HasPrefix(term)
    THEN get_namespace_registry(reg, term)[BeforeFirst(term, ":")]
    ELSE None

\* ------------------------------------------------------------------ term classifier

\* re.search(r"\bviaf\.org\/viaf\/\d+\b", s, re.IGNORECASE)
IsViafRef(s) ==
    \E i \in Occurrences(Lower(s), <<"v", "i", "a", "f", ".", "o", "r", "g", "/", "v", "i", "a", "f", "/">>) :
        /\ i = 1 \/ ~IsWord(s[i - 1])
        /\ i + 14 <= Len(s)
        /\ IsDigit(s[i + 14])
        /\ \E j \in (i + 14)..Len(s) :
              /\ AllDigits(SubSeq(s, i + 14, j))
              /\ j = Len(s) \/ ~IsWord(s[j + 1])

detect_object_term(obj_val_str, reg) ==
    LET s == Strip(obj_val_str)
        low == Lower(s)
        web == StartsWith(low, <<"h", "t", "t", "p", ":", "/", "/">>) \/ StartsWith(low, <<"h", "t", "t", "p", "s", ":", "/", "/">>)
    IN  IF obj_val_str = None THEN Literal(<<>>, XSD_string)
        ELSE IF IsViafRef(s)
        THEN URIRef(IF web THEN s ELSE <<"h", "t", "t", "p", "s", ":", "/", "/">> \o LStripSet(s, {"/"}))
        ELSE IF web \/ StartsWith(low, <<"w", "w", "w", ".">>)
        THEN URIRef(IF StartsWith(low, <<"w", "w", "w", ".">>) THEN <<"h", "t", "t", "p", "s", ":", "/", "/">> \o s ELSE s)
        ELSE IF Contains(s, <<":">>) /\ ~StartsWith(low, <<"h", "t", "t", "p">>)
                /\ BeforeFirst(s, ":") \in DOMAIN reg
        THEN URIRef(reg[BeforeFirst(s, ":")] \o AfterFirst(s, ":"))
        ELSE Literal(s, XSD_string)


\* ------------------------------------------------------------------ range expander

\* [a-z\.] under re.IGNORECASE
TypeChars == LowerLetters \cup UpperLetters \cup {"."}

\* [\d\s,\-\+]
NumChars == Digits \cup WhiteSpace \cup {",", "-", "+"}

\* the last position of the run of characters of cs that starts at position i (i - 1: no run)
RECURSIVE RunEnd(_, _, _)
RunEnd(s, i, cs) == IF i <= Len(s) /\ s[i] \in cs THEN RunEnd(s, i + 1, cs) ELSE i - 1

\* type_pattern matches at position p: (?:bust|fasc)[a-z\.]*\s*[\d\s,\-\+]+
TypeEnd(s, p) == RunEnd(s, p + 4, TypeChars)

NumsEnd(s, p) == RunEnd(s, TypeEnd(s, p) + 1, NumChars)

MatchesAt(s, p) ==
    /\ p + 3 <= Len(s)
    /\ Lower(SubSeq(s, p, p + 3)) \in {<<"b", "u", "s", "t">>, <<"f", "a", "s", "c">>}
    /\ NumsEnd(s, p) > TypeEnd(s, p)

\* re.finditer(type_pattern, group, re.IGNORECASE) from position i on: the sequence of
\* <<match.group("type").lower(), match.group("nums").strip()>>
RECURSIVE finditer(_, _)
finditer(s, i) ==
    LET starts == {p \in i..Len(s) : MatchesAt(s, p)}
    IN  IF starts = {} THEN <<>>
        ELSE LET p == Min(starts)
             IN  << <<Lower(SubSeq(s, p, TypeEnd(s, p))),
                      Strip(SubSeq(s, TypeEnd(s, p) + 1, NumsEnd(s, p)))>> >>
                 \o finditer(s, NumsEnd(s, p) + 1)

\* int(s) for a string on which int() succeeds
IntValue(s) ==
    LET t == Strip(s)
        neg == Len(t) > 0 /\ t[1] = "-"
        u == SelectSeq(t, IsDigit)
    IN  IF neg THEN 0 - DigitsValue(u) ELSE DigitsValue(u)

\* list(range(a, b)): the end is left out
RangeList_exclusive(a, b) == IF b <= a THEN <<>> ELSE [i \in 1..(b - a) |-> a + i - 1]

\* list(range(a, b + 1))
RangeList(a, b) == IF b < a THEN <<>> ELSE [i \in 1..(b - a + 1) |-> a + i - 1]

\* the numbers one comma-separated part contributes to expanded_nums
ExpandPart(rawpart) ==
    LET part == Strip(rawpart)
        ends == Split(part, "-")
    IN  IF Contains(part, <<"-">>)
        THEN IF Len(ends) = 2 /\ IntOk(ends[1]) /\ IntOk(ends[2])
             THEN RangeList(IntValue(ends[1]), IntValue(ends[2]))
             ELSE <<>>
        ELSE IF Len(part) > 0 /\ AllDigits(part) THEN <<DigitsValue(part)>> ELSE <<>>

RECURSIVE ExpandParts(_)
ExpandParts(parts) ==
    IF Len(parts) = 0 THEN <<>> ELSE ExpandPart(Head(parts)) \o ExpandParts(Tail(parts))

\* expanded_nums of one match
expanded_nums(nums_str) ==
    ExpandParts(Split(StripSet(ReplaceChar(nums_str, "+", ","), {",", " "}), ","))

\* the child URI of one expanded number
child_uri(subj_val, child_suffix) ==
    BASE_NS \o make_safe_uri_label(subj_val \o child_suffix)

\* current_busta_num = None; a number n is held as <<n>>
NoNumber == <<>>

\* fasc_suffix that never uses current_busta_num
fasc_suffix_fallback(current_busta_num, num) == <<"_", "F">> \o Pad3(num)

fasc_suffix(current_busta_num, num) ==
    IF current_busta_num # NoNumber
    THEN <<"_", "B">> \o NatStr(current_busta_num[1]) \o <<"_">> \o Pad3(num)
    ELSE <<"_", "F">> \o Pad3(num)

\* busta_after that keeps the first expanded number
busta_after_first(current_busta_num, nums) ==
    IF Len(nums) = 0 THEN current_busta_num ELSE <<nums[1]>>

\* current_busta_num after a "bust" match: the last expanded number, if any
busta_after(current_busta_num, nums) ==
    IF Len(nums) = 0 THEN current_busta_num ELSE <<nums[Len(nums)]>>

\* the triples one match adds, given current_busta_num before it
match_adds(subj_val, subj_uri, final_pred, type_str, nums, current_busta_num) ==
    IF Contains(type_str, <<"b", "u", "s", "t">>)
    THEN {<<subj_uri, final_pred, URIRef(child_uri(subj_val, <<"_", "B">> \o NatStr(nums[i])))>>
             : i \in 1..Len(nums)}
    ELSE IF Contains(type_str, <<"f", "a", "s", "c">>)
    THEN {<<subj_uri, final_pred,
            URIRef(child_uri(subj_val, fasc_suffix(current_busta_num, nums[i])))>>
             : i \in 1..Len(nums)}
    ELSE {}

\* the triples the matches of one group add, from match k on
RECURSIVE group_adds(_, _, _, _, _, _)
group_adds(subj_val, subj_uri, final_pred, matches, k, current_busta_num) ==
    IF k > Len(matches) THEN {}
    ELSE LET type_str == matches[k][1]
             nums == expanded_nums(matches[k][2])
         IN  match_adds(subj_val, subj_uri, final_pred, type_str, nums, current_busta_num)
             \cup group_adds(subj_val, subj_uri, final_pred, matches, k + 1,
                    IF Contains(type_str, <<"b", "u", "s", "t">>)
                    THEN busta_after(current_busta_num, nums)
                    ELSE current_busta_num)

\* range_adds that does not split the cell: current_busta_num lives on after a semicolon
range_adds_unsplit(subj_val, subj_uri, final_pred, obj_val_str) ==
    group_adds(subj_val, subj_uri, final_pred, finditer(Strip(obj_val_str), 1), 1, NoNumber)

\* the triples of one cell: every semicolon-separated group starts with no busta
range_adds(subj_val, subj_uri, final_pred, obj_val_str) ==
    LET groups == Split(obj_val_str, ";")
    IN  UNION { group_adds(subj_val, subj_uri, final_pred,
                           finditer(Strip(groups[n]), 1), 1, NoNumber)
                : n \in 1..Len(groups) }


\* ------------------------------------------------------------------ graph accumulator

\* (s, p, o) in g
InGraph(graph, s, p, o) == <<s, p, o>> \in graph

\* the objects of (s, p, *)
Objects(graph, s, p) == {t[3] : t \in {u \in graph : u[1] = s /\ u[2] = p}}

\* g.value(s, p): an object of (s, p, *), None when there is none
value(graph, s, p) ==
    IF Objects(graph, s, p) = {} THEN NoTerm ELSE CHOOSE o \in Objects(graph, s, p) : TRUE

\* ------------------------------------------------------------------ enrichment service

\* What the gazetteer (cache, then network) answers for one place: no id; an id whose
\* details could not be fetched; an id with coordinates and feature classification.
GeoMiss == [id |-> None, lat |-> None, lon |-> None, fclass |-> None, fcode |-> None]

GeoBare == [id |-> <<"3", "1", "8", "1", "9", "2", "8">>, lat |-> None, lon |-> None, fclass |-> None, fcode |-> None]

GeoFull ==
    [id |-> <<"3", "1", "8", "1", "9", "2", "8">>, lat |-> <<"4", "4", ".", "4", "9">>, lon |-> <<"1", "1", ".", "3", "4">>, fclass |-> <<"P">>, fcode |-> <<"P", "P", "L", "A">>]

GeoAnswers == {GeoMiss, GeoBare, GeoFull}

\* the triples fetch_and_add_geonames_features adds for the answer geo
fetch_and_add_geonames_features(place_uri, geo) ==
    IF geo.id = None THEN {}
    ELSE {<<place_uri, OWL_sameAs, URIRef(<<"h", "t", "t", "p", ":", "/", "/", "s", "w", "s", ".", "g", "e", "o", "n", "a", "m", "e", "s", ".", "o", "r", "g", "/">> \o geo.id \o <<"/">>)>>}
         \cup (IF geo.lat # None /\ geo.lon # None
               THEN { <<place_uri, WGS84 \o <<"l", "a", "t">>, Literal(geo.lat, XSD \o <<"d", "e", "c", "i", "m", "a", "l">>)>>,
                      <<place_uri, WGS84 \o <<"l", "o", "n", "g">>, Literal(geo.lon, XSD \o <<"d", "e", "c", "i", "m", "a", "l">>)>> }
               ELSE {})
         \cup (IF geo.fclass # None
               THEN {<<place_uri, GN_featureClass, Literal(geo.fclass, XSD_string)>>}
               ELSE {})
         \cup (IF geo.fcode # None
               THEN {<<place_uri, GN_featureCode, Literal(geo.fcode, XSD_string)>>}
               ELSE {})

\* the shortcut copies of the place's feature classification onto the record
place_shortcuts(graph, subj_uri, entity_uri) ==
    (IF Truthy(value(graph, entity_uri, GN_featureClass))
     THEN {<<subj_uri, GN_featureClass, value(graph, entity_uri, GN_featureClass)>>}
     ELSE {})
    \cup (IF Truthy(value(graph, entity_uri, GN_featureCode))
          THEN {<<subj_uri, GN_featureCode, value(graph, entity_uri, GN_featureCode)>>}
          ELSE {})

\* ------------------------------------------------------------------ rows and rules

\* inst_row.get(name): the cell of the column called name, None when there is no such column
Get(df, row, name) ==
    LET at == {i \in 1..Len(df.columns) : df.columns[i] = name}
    IN  IF at = {} THEN None ELSE row[Min(at)]

\* the cell of the first of the columns at, None when there is none
FirstCell(row, at) == IF at = {} THEN None ELSE row[Min(at)]

\* str(cell).strip() of a mapping cell, None when the cell is empty
RuleCell(v) == IF isna(v) THEN None ELSE Strip(v)

\* "if not x" on a string or None
Falsy(s) == s = None \/ Len(s) = 0

\* str(x) of a string or None
PyStr(s) == IF s = None THEN <<"N", "o", "n", "e">> ELSE s

\* the predicate URI of a rule
rule_pred(reg, predicate_str) ==
    LET ns == get_namespace(reg, predicate_str)
    IN  IF ns # None THEN ns \o AfterFirst(predicate_str, ":") ELSE predicate_str

\* the rule is left before any row is read: no subject column or no predicate
rule_incomplete(rule) == Falsy(RuleCell(rule.subj_col)) \/ Falsy(RuleCell(rule.predicate))

\* SAFEGUARD: explicit rdf:type mappings for Person and Agent are not applied
rule_safeguard(reg, rule) ==
    /\ rule_pred(reg, RuleCell(rule.predicate)) = RDF_type
    /\ \/ Contains(PyStr(RuleCell(rule.object)), RICO_Person)
       \/ Contains(PyStr(RuleCell(rule.object)), RICO_Agent)

\* the subject and object values of a row under a rule
subj_val_of(rule, df, row) == Get(df, row, Lower(RuleCell(rule.subj_col)))

obj_val_of(rule, df, row) ==
    IF ~Falsy(RuleCell(rule.obj_col))
    THEN Get(df, row, Lower(RuleCell(rule.obj_col)))
    ELSE RuleCell(rule.object)

\* the row is skipped: subject or object value missing
\* row_missing that tests the subject value only
row_missing_subject_only(rule, df, row) == isna(subj_val_of(rule, df, row))

row_missing(rule, df, row) == isna(subj_val_of(rule, df, row)) \/ isna(obj_val_of(rule, df, row))

subj_uri_of(subj_val) == BASE_NS \o make_safe_uri_label(subj_val)

\* ------------------------------------------------------------------ Person / Agent

\* re.search(r"(\d+)$", s): the digits s ends with, None when it ends with none
trailing_digits(s) ==
    LET others == {i \in 1..Len(s) : ~IsDigit(s[i])}
        from == IF others = {} THEN 1 ELSE Max(others) + 1
    IN  IF from > Len(s) THEN None ELSE SubSeq(s, from, Len(s))

\* external_link of a VIAF cell, None when the row makes no Person
viaf_link(viaf_code) ==
    IF isna(viaf_code) THEN None
    ELSE LET viaf_val_str == Strip(viaf_code)
             viaf_id == trailing_digits(viaf_val_str)
         IN  IF Len(viaf_val_str) = 0 \/ Lower(viaf_val_str) = <<"n", "a", "n">> THEN None
             ELSE IF viaf_id = None THEN None
             ELSE <<"h", "t", "t", "p", ":", "/", "/", "v", "i", "a", "f", ".", "o", "r", "g", "/", "v", "i", "a", "f", "/">> \o viaf_id \o <<"/">>

is_person(viaf_code) == viaf_link(viaf_code) # None

agent_type(viaf_code) == IF is_person(viaf_code) THEN RICO_Person ELSE RICO_Agent

\* agent_ns with every agent filed under person/
agent_ns_person_only(reg, viaf_code) == reg[<<"p", "e", "r", "s", "o", "n">>]

agent_ns(reg, viaf_code) == IF is_person(viaf_code) THEN reg[<<"p", "e", "r", "s", "o", "n">>] ELSE reg[<<"a", "g", "e", "n", "t">>]

agent_uri_of(reg, name_val, viaf_code) ==
    agent_ns(reg, viaf_code) \o make_safe_uri_label(name_val)

\* the defining triples of a Person or Agent, written at its first encounter
agent_creation(graph, agent_uri, name_val, viaf_code) ==
    LET external_link == viaf_link(viaf_code)
        type == IF external_link # None THEN RICO_Person ELSE RICO_Agent
    IN  IF ~InGraph(graph, agent_uri, RDF_type, URIRef(type))
        THEN { <<agent_uri, RDF_type, URIRef(type)>>,
               <<agent_uri, RDFS_label, Literal(name_val, None)>>,
               <<agent_uri, ns_rico \o <<"h", "a", "s", "O", "r", "H", "a", "d", "N", "a", "m", "e">>, Literal(name_val, None)>> }
             \cup (IF external_link # None
                   THEN {<<agent_uri, OWL_sameAs, URIRef(external_link)>>}
                   ELSE {})
        ELSE {}

\* the VIAF cell each sheet reads
viaf_code_documento(df, row) ==
    FirstCell(row, {i \in 1..Len(df.columns) :
                       Contains(df.columns[i], <<"v", "i", "a", "f">>) /\ Contains(df.columns[i], <<"e", "x", "t", "r", "a">>)})

viaf_code_fascicolo(df, row) ==
    FirstCell(row, {i \in 1..Len(df.columns) : df.columns[i] \in {<<"v", "i", "a", "f">>, <<"l", "i", "n", "k", " ", "v", "i", "a", "f">>}})


\* ------------------------------------------------------------------ entity materializer (script.py)

\* What a branch of the instance row loop leaves behind: the triples it handed to g.add,
\* the places it looked up in the gazetteer, the entities (uri, type, label) it met,
\* final_obj_term, and whether it left the iteration with "continue".
Branch(adds, looked, met, term) ==
    [adds |-> adds, looked |-> looked, met |-> met, term |-> term, cont |-> FALSE]

Continue == [adds |-> {}, looked |-> {}, met |-> {}, term |-> NoTerm, cont |-> TRUE]

\* 1. and 2.: sender of a "documento" row, person predicate of a "fascicolo" row
agent_branch(graph, reg, name_val, viaf_code) ==
    LET agent_uri == agent_uri_of(reg, name_val, viaf_code)
    IN  Branch(agent_creation(graph, agent_uri, name_val, viaf_code),
               {},
               {<<agent_uri, agent_type(viaf_code), name_val>>},
               URIRef(agent_uri))

\* date_uri_part with a creation date that does not test end_str
date_uri_part_always(final_pred, obj_val_str) ==
    LET start_str == parse_normalized_dates(obj_val_str)[1]
        end_str == parse_normalized_dates(obj_val_str)[2]
    IN  IF final_pred = RICO_HAS_BEGIN_DATE THEN (IF ~Falsy(end_str) THEN start_str ELSE None)
        ELSE IF final_pred = RICO_HAS_END_DATE THEN (IF ~Falsy(end_str) THEN end_str ELSE None)
        ELSE IF final_pred = RICO_HAS_CREATION_DATE THEN start_str
        ELSE None

\* the fragment of the date value a date predicate takes, None when it takes none
date_uri_part(final_pred, obj_val_str) ==
    LET start_str == parse_normalized_dates(obj_val_str)[1]
        end_str == parse_normalized_dates(obj_val_str)[2]
    IN  IF final_pred = RICO_HAS_BEGIN_DATE THEN (IF ~Falsy(end_str) THEN start_str ELSE None)
        ELSE IF final_pred = RICO_HAS_END_DATE THEN (IF ~Falsy(end_str) THEN end_str ELSE None)
        ELSE IF final_pred = RICO_HAS_CREATION_DATE
        THEN (IF Falsy(end_str) THEN start_str ELSE None)
        ELSE None

\* the label of the Date entity's URI
unique_date_string(subj_val, part) == part

date_entity_uri(subj_val, part) ==
    BASE_NS \o <<"d", "a", "t", "e">> \o <<"/">> \o make_safe_uri_label(unique_date_string(subj_val, part))

\* the normalized value of a new Date entity, on the entity and on the record
date_normalized(subj_uri, entity_uri, entity_label) ==
    LET fmt == format_date_for_xsd(entity_label)
    IN  IF ~Falsy(fmt[1])
        THEN { <<entity_uri, RICO_NORMALIZED_DATE, Literal(fmt[1], fmt[2])>>,
               <<subj_uri, RICO_NORMALIZED_DATE, Literal(fmt[1], fmt[2])>> }
        ELSE {}

\* the expressed date of a "documento" row, on the entity and on the record
date_expressed(sheet_lower, df, row, subj_uri, entity_uri) ==
    IF sheet_lower = <<"d", "o", "c", "u", "m", "e", "n", "t", "o">> /\ ~isna(Get(df, row, <<"d", "a", "t", "a">>))
    THEN { <<entity_uri, RICO_EXPRESSED_DATE, Literal(Strip(Get(df, row, <<"d", "a", "t", "a">>)), XSD_string)>>,
           <<subj_uri, RICO_EXPRESSED_DATE, Literal(Strip(Get(df, row, <<"d", "a", "t", "a">>)), XSD_string)>> }
    ELSE {}

\* the defining triples of an entity: type and label
entity_definition(entity_uri, entity_type_uri, entity_label) ==
    { <<entity_uri, RDF_type, URIRef(entity_type_uri)>>,
      <<entity_uri, RDFS_label, Literal(entity_label, None)>> }

\* is_new without the test of the graph
is_new_unguarded(graph, entity_uri, entity_type_uri) == TRUE

\* is_new that tests whether any entity of the type is in the graph
is_new_of_type(graph, entity_uri, entity_type_uri) ==
    \A t \in graph : t[2] # RDF_type \/ t[3] # URIRef(entity_type_uri)

\* the creation guard: the defining triples are written when the type triple is absent
is_new(graph, entity_uri, entity_type_uri) ==
    ~InGraph(graph, entity_uri, RDF_type, URIRef(entity_type_uri))

date_branch(graph, sheet_lower, df, row, subj_val, subj_uri, final_pred, obj_val_str) ==
    LET part == date_uri_part(final_pred, obj_val_str)
        entity_uri == date_entity_uri(subj_val, part)
    IN  IF Falsy(part) THEN Continue
        ELSE Branch(
               IF is_new(graph, entity_uri, RICO_Date)
               THEN entity_definition(entity_uri, RICO_Date, part)
                    \cup date_normalized(subj_uri, entity_uri, part)
                    \cup date_expressed(sheet_lower, df, row, subj_uri, entity_uri)
               ELSE {},
               {},
               {<<entity_uri, RICO_Date, part>>},
               URIRef(entity_uri))

place_entity_uri(obj_val_str) == BASE_NS \o <<"p", "l", "a", "c", "e">> \o <<"/">> \o make_safe_uri_label(obj_val_str)

\* a new Place is defined, enriched, and its feature classification copied to the record
place_creation(graph, subj_uri, entity_uri, entity_label, geo) ==
    LET written == entity_definition(entity_uri, RICO_Place, entity_label)
                       \cup fetch_and_add_geonames_features(entity_uri, geo)
    IN  written \cup place_shortcuts(graph \cup written, subj_uri, entity_uri)

\* place_branch with the enrichment outside the creation guard
place_branch_every_time(graph, subj_uri, obj_val_str, geo) ==
    LET entity_uri == place_entity_uri(obj_val_str)
        new == is_new(graph, entity_uri, RICO_Place)
    IN  Branch(
          IF new THEN place_creation(graph, subj_uri, entity_uri, obj_val_str, geo)
          ELSE fetch_and_add_geonames_features(entity_uri, geo),
          {entity_uri},
          {<<entity_uri, RICO_Place, obj_val_str>>},
          URIRef(entity_uri))

place_branch(graph, subj_uri, obj_val_str, geo) ==
    LET entity_uri == place_entity_uri(obj_val_str)
        new == is_new(graph, entity_uri, RICO_Place)
    IN  Branch(
          IF new THEN place_creation(graph, subj_uri, entity_uri, obj_val_str, geo) ELSE {},
          IF new THEN {entity_uri} ELSE {},
          {<<entity_uri, RICO_Place, obj_val_str>>},
          URIRef(entity_uri))

\* 3. standard logic: places and dates
standard_branch(graph, sheet_lower, df, row, subj_val, subj_uri, final_pred, obj_val_str, geo) ==
    IF final_pred \in PLACE_PREDICATES
    THEN place_branch(graph, subj_uri, obj_val_str, geo)
    ELSE date_branch(graph, sheet_lower, df, row, subj_val, subj_uri, final_pred, obj_val_str)

\* 4. range logic: the children of the cell; final_obj_term stays None
range_branch(subj_val, subj_uri, final_pred, obj_val_str) ==
    Branch(range_adds(subj_val, subj_uri, final_pred, obj_val_str), {}, {}, NoTerm)

\* an Identifier or a Title shared by every record that cites it
shared_branch(graph, ns, class, obj_val_str) ==
    LET uri == ns \o make_safe_uri_label(obj_val_str)
    IN  Branch(
          IF is_new(graph, uri, class) THEN entity_definition(uri, class, obj_val_str) ELSE {},
          {},
          {<<uri, class, obj_val_str>>},
          URIRef(uri))

\* 5. structural links, identifiers, titles, skipped predicates, default
default_branch(graph, reg, final_pred, obj_val_str) ==
    IF final_pred \in STRUCTURAL_URI_PREDICATES
    THEN Branch({}, {}, {}, URIRef(BASE_NS \o make_safe_uri_label(obj_val_str)))
    ELSE IF final_pred = RICO_HAS_IDENTIFIER_URI
    THEN shared_branch(graph, ns_ident, RICO_IDENTIFIER_CLASS, obj_val_str)
    ELSE IF final_pred = RICO_HAS_TITLE_URI
    THEN shared_branch(graph, ns_title, RICO_TITLE_CLASS, obj_val_str)
    ELSE IF final_pred \in {RICO_DATE_PREDICATE, RICO_EXPRESSED_DATE, RICO_NORMALIZED_DATE}
    THEN Continue
    ELSE Branch({}, {}, {}, detect_object_term(obj_val_str, reg))

\* the conditions of the two Person / Agent branches
documento_agent_rule(sheet_lower, rule) ==
    /\ sheet_lower = <<"d", "o", "c", "u", "m", "e", "n", "t", "o">>
    /\ ~Falsy(RuleCell(rule.obj_col))
    /\ Contains(Lower(RuleCell(rule.obj_col)), <<"m", "i", "t", "t", "e", "n", "t", "i", " ", "e", "x", "t", "r", "a">>)

fascicolo_agent_rule(sheet_lower, final_pred) ==
    sheet_lower = <<"f", "a", "s", "c", "i", "c", "o", "l", "o">> /\ final_pred \in PERSON_PREDICATES

\* the branch a row of script.py takes
row_branch(graph, reg, sheet_lower, rule, df, row, geo) ==
    LET final_pred == rule_pred(reg, RuleCell(rule.predicate))
        subj_val == subj_val_of(rule, df, row)
        subj_uri == subj_uri_of(subj_val)
        obj_val_str == Strip(obj_val_of(rule, df, row))
    IN  IF documento_agent_rule(sheet_lower, rule)
        THEN agent_branch(graph, reg, obj_val_str, viaf_code_documento(df, row))
        ELSE IF fascicolo_agent_rule(sheet_lower, final_pred)
        THEN agent_branch(graph, reg, obj_val_str, viaf_code_fascicolo(df, row))
        ELSE IF final_pred \in LITERAL_TO_ENTITY_PREDICATES
        THEN standard_branch(graph, sheet_lower, df, row, subj_val, subj_uri, final_pred,
                             obj_val_str, geo)
        ELSE IF final_pred \in RANGE_PREDICATES
        THEN range_branch(subj_val, subj_uri, final_pred, obj_val_str)
        ELSE default_branch(graph, reg, final_pred, obj_val_str)

\* the primary triple: added when the branch did not "continue" and final_obj_term is true
primary(subj_uri, final_pred, b) ==
    IF ~b.cont /\ Truthy(b.term) THEN {<<subj_uri, final_pred, b.term>>} ELSE {}

\* every triple one iteration of the instance row loop of script.py hands to g.add
row_adds(graph, reg, sheet_lower, rule, df, row, geo) ==
    LET b == row_branch(graph, reg, sheet_lower, rule, df, row, geo)
    IN  b.adds \cup primary(subj_uri_of(subj_val_of(rule, df, row)),
                            rule_pred(reg, RuleCell(rule.predicate)), b)

\* ------------------------------------------------------------------ entity materializer (script1.py)

\* script1.py: the Date entity is named after the record and the date fragment
date_entity_uri1(subj_val, part) ==
    BASE_NS \o <<"d", "a", "t", "e">> \o <<"/">> \o make_safe_uri_label(subj_val \o <<"_">> \o part)

\* script1.py also gives every new entity a rico:name
entity_definition1(entity_uri, entity_type_uri, entity_label) ==
    entity_definition(entity_uri, entity_type_uri, entity_label)
    \cup {<<entity_uri, ns_rico \o <<"n", "a", "m", "e">>, Literal(entity_label, XSD_string)>>}

\* the answers of the gazetteer are those of script.py
fetch_and_add_geonames_features1(place_uri, geo) ==
    fetch_and_add_geonames_features(place_uri, geo)

date_branch1(graph, sheet_lower, df, row, subj_val, subj_uri, final_pred, obj_val_str) ==
    LET part == date_uri_part(final_pred, obj_val_str)
        entity_uri == date_entity_uri1(subj_val, part)
    IN  IF Falsy(part) THEN Continue
        ELSE Branch(
               IF is_new(graph, entity_uri, RICO_Date)
               THEN entity_definition1(entity_uri, RICO_Date, part)
                    \cup date_normalized(subj_uri, entity_uri, part)
                    \cup date_expressed(sheet_lower, df, row, subj_uri, entity_uri)
               ELSE {},
               {},
               {<<entity_uri, RICO_Date, part>>},
               URIRef(entity_uri))

\* ADD SHORTCUTS TO RECORD EVERY TIME
place_branch1(graph, subj_uri, obj_val_str, geo) ==
    LET entity_uri == place_entity_uri(obj_val_str)
        new == is_new(graph, entity_uri, RICO_Place)
        written == IF new
                   THEN entity_definition1(entity_uri, RICO_Place, obj_val_str)
                        \cup fetch_and_add_geonames_features1(entity_uri, geo)
                   ELSE {}
    IN  Branch(
          written \cup place_shortcuts(graph \cup written, subj_uri, entity_uri),
          IF new THEN {entity_uri} ELSE {},
          {<<entity_uri, RICO_Place, obj_val_str>>},
          URIRef(entity_uri))

\* senders and associated agents: always an Agent, under entity/
agent_branch1(graph, obj_val_str) ==
    LET entity_uri == BASE_NS \o <<"e", "n", "t", "i", "t", "y">> \o <<"/">> \o make_safe_uri_label(obj_val_str)
    IN  Branch(
          IF is_new(graph, entity_uri, RICO_Agent)
          THEN entity_definition1(entity_uri, RICO_Agent, obj_val_str)
          ELSE {},
          {},
          {<<entity_uri, RICO_Agent, obj_val_str>>},
          URIRef(entity_uri))

entity_branch1(graph, sheet_lower, df, row, subj_val, subj_uri, final_pred, obj_val_str, geo) ==
    IF final_pred \in PLACE_PREDICATES
    THEN place_branch1(graph, subj_uri, obj_val_str, geo)
    ELSE IF final_pred \in DATE_PREDICATES
    THEN date_branch1(graph, sheet_lower, df, row, subj_val, subj_uri, final_pred, obj_val_str)
    ELSE agent_branch1(graph, obj_val_str)

identifier_branch1(graph, obj_val_str) ==
    LET id_uri == ns_ident \o make_safe_uri_label(obj_val_str)
    IN  Branch(
          IF is_new(graph, id_uri, RICO_IDENTIFIER_CLASS)
          THEN entity_definition(id_uri, RICO_IDENTIFIER_CLASS, <<"I", "d", "e", "n", "t", "i", "f", "i", "e", "r", ":", " ">> \o obj_val_str)
          ELSE {},
          {},
          {<<id_uri, RICO_IDENTIFIER_CLASS, <<"I", "d", "e", "n", "t", "i", "f", "i", "e", "r", ":", " ">> \o obj_val_str>>},
          URIRef(id_uri))

\* the branch a row of script1.py takes
row_branch1(graph, reg, sheet_lower, rule, df, row, geo) ==
    LET final_pred == rule_pred(reg, RuleCell(rule.predicate))
        subj_val == subj_val_of(rule, df, row)
        subj_uri == subj_uri_of(subj_val)
        obj_val_str == Strip(obj_val_of(rule, df, row))
    IN  IF final_pred \in LITERAL_TO_ENTITY_PREDICATES1
        THEN entity_branch1(graph, sheet_lower, df, row, subj_val, subj_uri, final_pred,
                            obj_val_str, geo)
        ELSE IF final_pred \in STRUCTURAL_URI_PREDICATES
        THEN Branch({}, {}, {}, URIRef(BASE_NS \o make_safe_uri_label(obj_val_str)))
        ELSE IF final_pred = RICO_HAS_IDENTIFIER_URI
        THEN identifier_branch1(graph, obj_val_str)
        ELSE IF final_pred = RICO_HAS_TITLE_URI
        THEN Branch({}, {}, {}, Literal(obj_val_str, RICO_TITLE_CLASS))
        ELSE IF final_pred \in {RICO_DATE_PREDICATE, RICO_EXPRESSED_DATE, RICO_NORMALIZED_DATE}
        THEN Continue
        ELSE Branch({}, {}, {}, detect_object_term(obj_val_str, reg))

\* Add the Primary Triple, then the special logic for the 'documento' sheet: a VIAF
\* reference is also the sender
primary1(sheet_lower, subj_uri, final_pred, b) ==
    IF b.cont THEN {}
    ELSE {<<subj_uri, final_pred, b.term>>}
         \cup (IF sheet_lower = <<"d", "o", "c", "u", "m", "e", "n", "t", "o">> /\ b.term.k = "uri"
                  /\ Contains(Lower(b.term.v), <<"v", "i", "a", "f", ".", "o", "r", "g", "/", "v", "i", "a", "f", "/">>)
               THEN { <<subj_uri, RICO_hasSender, b.term>>,
                      <<subj_uri, RICO_isAssociatedWith, b.term>> }
               ELSE {})

\* every triple one iteration of the instance row loop of script1.py hands to g.add
row_adds1(graph, reg, sheet_lower, rule, df, row, geo) ==
    LET b == row_branch1(graph, reg, sheet_lower, rule, df, row, geo)
    IN  b.adds \cup primary1(sheet_lower, subj_uri_of(subj_val_of(rule, df, row)),
                             rule_pred(reg, RuleCell(rule.predicate)), b)


\* ------------------------------------------------------------------ input workbooks

\* a mapping rule: the cells Column Subject, Predicate, Column Object, Object of one row
Rule(subj_col, predicate, obj_col, object) ==
    [subj_col |-> subj_col, predicate |-> predicate, obj_col |-> obj_col, object |-> object]

required_cols == {<<"S", "u", "b", "j", "e", "c", "t">>, <<"P", "r", "e", "d", "i", "c", "a", "t", "e">>, <<"O", "b", "j", "e", "c", "t">>, <<"C", "o", "l", "u", "m", "n", " ", "S", "u", "b", "j", "e", "c", "t">>, <<"C", "o", "l", "u", "m", "n", " ", "O", "b", "j", "e", "c", "t">>}

DocumentoRules ==
    { Rule(<<"I", "D">>, <<"r", "i", "c", "o", ":", "h", "a", "s", "S", "e", "n", "d", "e", "r">>, <<"M", "i", "t", "t", "e", "n", "t", "i", " ", "E", "x", "t", "r", "a">>, NaN),
      Rule(<<"I", "D">>, <<"r", "i", "c", "o", ":", "i", "s", "A", "s", "s", "o", "c", "i", "a", "t", "e", "d", "W", "i", "t", "h", "P", "l", "a", "c", "e">>, <<"L", "u", "o", "g", "o">>, NaN),
      Rule(<<"I", "D">>, <<"r", "i", "c", "o", ":", "h", "a", "s", "C", "r", "e", "a", "t", "i", "o", "n", "D", "a", "t", "e">>, <<"D", "a", "t", "a", " ", "N", "o", "r", "m">>, NaN),
      Rule(<<"I", "D">>, <<"r", "d", "f", ":", "t", "y", "p", "e">>, NaN, <<"h", "t", "t", "p", ":", "/", "/", "e", "x", "a", "m", "p", "l", "e", ".", "o", "r", "g", "/", "r", "i", "c", "o", "#", "P", "e", "r", "s", "o", "n">>),
      Rule(<<"I", "D">>, <<"r", "d", "f", ":", "t", "y", "p", "e">>, NaN, <<"r", "i", "c", "o", ":", "P", "e", "r", "s", "o", "n">>),
      Rule(NaN, <<"r", "i", "c", "o", ":", "n", "o", "t", "e">>, <<"L", "u", "o", "g", "o">>, NaN) }

FascicoloRules ==
    { Rule(<<"I", "D">>, <<"r", "i", "c", "o", ":", "h", "a", "s", "S", "e", "n", "d", "e", "r">>, <<"M", "i", "t", "t", "e", "n", "t", "e">>, NaN),
      Rule(<<"I", "D">>, <<"r", "i", "c", "o", ":", "h", "a", "s", "B", "e", "g", "i", "n", "n", "i", "n", "g", "D", "a", "t", "e">>, <<"D", "a", "t", "e">>, NaN),
      Rule(<<"I", "D">>, <<"r", "i", "c", "o", ":", "h", "a", "s", "E", "n", "d", "D", "a", "t", "e">>, <<"D", "a", "t", "e">>, NaN),
      Rule(<<"I", "D">>, <<"r", "i", "c", "o", ":", "h", "a", "s", "C", "r", "e", "a", "t", "i", "o", "n", "D", "a", "t", "e">>, <<"D", "a", "t", "e">>, NaN),
      Rule(<<"I", "D">>, <<"r", "i", "c", "o", ":", "i", "n", "c", "l", "u", "d", "e", "s">>, <<"C", "o", "n", "s", "i", "s", "t", "e", "n", "z", "a">>, NaN),
      Rule(<<"I", "D">>, <<"r", "i", "c", "o", ":", "h", "a", "s", "O", "r", "H", "a", "d", "I", "d", "e", "n", "t", "i", "f", "i", "e", "r">>, <<"S", "e", "g", "n", "a", "t", "u", "r", "a">>, NaN),
      Rule(<<"I", "D">>, <<"r", "i", "c", "o", ":", "h", "a", "s", "O", "r", "H", "a", "d", "T", "i", "t", "l", "e">>, <<"T", "i", "t", "o", "l", "o">>, NaN),
      Rule(<<"I", "D">>, <<"r", "i", "c", "o", ":", "i", "s", "I", "n", "c", "l", "u", "d", "e", "d", "I", "n">>, <<"P", "a", "r", "e", "n", "t">>, NaN),
      Rule(<<"I", "D">>, <<"r", "i", "c", "o", ":", "d", "a", "t", "e", "O", "r", "D", "a", "t", "e", "R", "a", "n", "g", "e">>, <<"D", "a", "t", "e">>, NaN),
      Rule(<<"I", "D">>, <<"e", "x", ":", "n", "o", "t", "e">>, <<"T", "i", "t", "o", "l", "o">>, NaN) }

\* the sheets of the mapping workbook: two that are processed, one without an instance
\* sheet, one without the column "Column Object"
MappingSheets ==
    { [name |-> <<"D", "o", "c", "u", "m", "e", "n", "t", "o", " ">>, columns |-> required_cols, rules |-> DocumentoRules],
      [name |-> <<"F", "a", "s", "c", "i", "c", "o", "l", "o">>, columns |-> required_cols, rules |-> FascicoloRules],
      [name |-> <<"S", "e", "r", "i", "e">>, columns |-> required_cols, rules |-> FascicoloRules],
      [name |-> <<"f", "a", "s", "c", "i", "c", "o", "l", "o", " ">>, columns |-> required_cols \ {<<"C", "o", "l", "u", "m", "n", " ", "O", "b", "j", "e", "c", "t">>},
       rules |-> FascicoloRules] }

NoSheet == [name |-> None, columns |-> {}, rules |-> {}]

\* the instance workbook, sheet and column names stripped and lowercased
DocumentoData ==
    [ columns |-> <<<<"i", "d">>, <<"m", "i", "t", "t", "e", "n", "t", "i", " ", "e", "x", "t", "r", "a">>, <<"v", "i", "a", "f", " ", "e", "x", "t", "r", "a">>, <<"l", "u", "o", "g", "o">>, <<"d", "a", "t", "a", " ", "n", "o", "r", "m">>, <<"d", "a", "t", "a">>>>,
      rows |->
        { <<<<"D", "1">>, <<"M", "a", "r", "i", "o", " ", "R", "o", "s", "s", "i">>, <<"1", "2">>, <<"B", "o", "l", "o", "g", "n", "a">>, <<"2", "0", "2", "3", "0", "2", "3", "0">>, NaN>>,
          <<<<"D", "2">>, <<"M", "a", "r", "i", "o", " ", " ", "R", "o", "s", "s", "i", ".">>, NaN, <<" ", "B", "o", "l", "o", "g", "n", "a">>, <<"2", "0", "2", "0", "0", "1", "0", "1">>, <<"1", " ", "g", "e", "n", " ", "2", "0", "2", "0">>>>,
          <<<<"D", "3">>, <<"M", "a", "r", "i", "o", " ", "R", "o", "s", "s", "i">>, <<"n", "/", "a">>, NaN, <<"2", "0", "2", "0", "0", "1", "0", "1">>, NaN>>,
          <<NaN, <<"A", "n", "n", "a">>, NaN, <<"R", "o", "m", "a">>, NaN, NaN>> } ]

FascicoloData ==
    [ columns |-> <<<<"i", "d">>, <<"m", "i", "t", "t", "e", "n", "t", "e">>, <<"v", "i", "a", "f">>, <<"d", "a", "t", "e">>, <<"c", "o", "n", "s", "i", "s", "t", "e", "n", "z", "a">>, <<"s", "e", "g", "n", "a", "t", "u", "r", "a">>,
                    <<"t", "i", "t", "o", "l", "o">>, <<"p", "a", "r", "e", "n", "t">>>>,
      rows |->
        { <<<<"S", "1">>, <<"M", "a", "r", "i", "o", " ", "R", "o", "s", "s", "i">>, <<"h", "t", "t", "p", ":", "/", "/", "v", "i", "a", "f", ".", "o", "r", "g", "/", "v", "i", "a", "f", "/", "3", "4">>, <<"2", "0", "2", "0", "0", "1", "0", "1", "-", "2", "0", "2", "0", "1", "2", "3", "1">>,
            <<"b", "u", "s", "t", "e", " ", "1", "-", "3", ",", " ", "f", "a", "s", "c", "c", ".", " ", "1", "-", "2">>, <<"A", " ", "1">>, NaN, <<"S", " ", "0">>>>,
          <<<<"S", "2">>, NaN, NaN, <<"2", "0", "2", "0", "0", "1", "0", "1", "-", "2", "0", "2", "0", "1", "2", "3", "1">>, NaN, <<"A", " ", "1", ".">>, <<"A", "t", "t", "i">>, NaN>>,
          <<<<"S", "3">>, <<"M", "a", "r", "i", "o", " ", "R", "o", "s", "s", "i">>, NaN, <<"2", "0", "2", "0", "0", "1", "0", "1">>,
            <<"f", "a", "s", "c", ".", " ", "4", ";", " ", "B", "u", "s", "t", "a", " ", "2", ",", " ", "f", "a", "s", "c", " ", "1", ";", " ", "b", "u", "s", "t", "a", " ", "5", "-", "3", ",", " ", "f", "a", "s", "c", ".", " ", "5">>, NaN, NaN, NaN>> } ]

instances_dfs == (<<"d", "o", "c", "u", "m", "e", "n", "t", "o">> :> DocumentoData) @@ (<<"f", "a", "s", "c", "i", "c", "o", "l", "o">> :> FascicoloData)

sheet_lower_of(sh) == Lower(Strip(sh.name))

\* ------------------------------------------------------------------ the run

\* the number of instance rows of a run that add a triple to the graph
MaxRows == 2

VARIABLES
    variant,    \* "script": src/script.py runs; "script1": src/script1.py runs
    g,          \* the graph: a set of triples <<subject, predicate, object term>>
    prefixes,   \* the prefix registry
    sheet,      \* the mapping sheet being processed, NoSheet between sheets
    nrows,      \* instance rows that added a triple so far
    lookups,    \* place URI -> number of gazetteer lookups made for it
    first,      \* entity URI -> <<type, label>> of its first encounter
    call        \* the last call of a utility function: [fn, arg, out], NoCall in a run

\* the variables of a run
run_vars == <<variant, g, prefixes, sheet, nrows, lookups, first>>

vars == <<variant, g, prefixes, sheet, nrows, lookups, first, call>>

NoCall == [fn |-> "none", arg |-> <<>>, out |-> <<>>]

Init ==
    /\ variant \in {"script", "script1"}
    /\ g = {}
    /\ prefixes = IF variant = "script" THEN InitialPrefixes ELSE InitialPrefixes1
    /\ sheet = NoSheet
    /\ nrows = 0
    /\ lookups = <<>>
    /\ first = <<>>
    /\ call = NoCall

\* the guard were it to test the instance sheet alone
sheet_skipped_no_columns(sh) == sheet_lower_of(sh) \notin DOMAIN instances_dfs

\* the sheet has no instance sheet or lacks a required column: it is skipped
sheet_skipped(sh) ==
    \/ sheet_lower_of(sh) \notin DOMAIN instances_dfs
    \/ ~(required_cols \subseteq sh.columns)

SkipSheet(sh) ==
    /\ sheet_skipped(sh)
    /\ sheet' = NoSheet
    /\ UNCHANGED <<variant, g, prefixes, nrows, lookups, first, call>>

\* the Predicate and Object cells whose prefix is registered before the rules are read
sheet_terms(sh) ==
    {Strip(r.predicate) : r \in {x \in sh.rules : ~isna(x.predicate)}}
    \cup {Strip(r.object) : r \in {x \in sh.rules : ~isna(x.object)}}

\* the registry after get_namespace was called on every term of the set
RECURSIVE register_all(_, _)
register_all(reg, terms) ==
    IF terms = {} THEN reg
    ELSE LET term == CHOOSE x \in terms : TRUE
         IN  register_all(get_namespace_registry(reg, term), terms \ {term})

OpenSheet(sh) ==
    /\ ~sheet_skipped(sh)
    /\ sheet' = sh
    /\ prefixes' = register_all(prefixes, sheet_terms(sh))
    /\ UNCHANGED <<variant, g, nrows, lookups, first, call>>

\* the rule is left before any instance row is read
rule_skipped(rule) ==
    \/ rule_incomplete(rule)
    \/ variant = "script" /\ rule_safeguard(prefixes, rule)

SkipRule(rule) ==
    /\ rule \in sheet.rules
    /\ rule_skipped(rule)
    /\ prefixes' = IF rule_incomplete(rule) THEN prefixes
                   ELSE get_namespace_registry(prefixes, RuleCell(rule.predicate))
    /\ UNCHANGED <<variant, g, sheet, nrows, lookups, first, call>>

\* the rows of the instance sheet that belongs to the current mapping sheet
sheet_rows == instances_dfs[sheet_lower_of(sheet)].rows

\* the rules of the current sheet whose instance rows are read
rules_applied == {rule \in sheet.rules : ~rule_skipped(rule)}

\* a row whose subject or object value is missing
SkipRow(rule, row) ==
    /\ rule \in sheet.rules
    /\ row \in sheet_rows
    /\ ~rule_skipped(rule)
    /\ row_missing(rule, instances_dfs[sheet_lower_of(sheet)], row)
    /\ prefixes' = get_namespace_registry(prefixes, RuleCell(rule.predicate))
    /\ UNCHANGED <<variant, g, sheet, nrows, lookups, first, call>>

\* the gazetteer is asked only for places
geo_answers(rule) ==
    IF rule_pred(prefixes, RuleCell(rule.predicate)) \in PLACE_PREDICATES
    THEN GeoAnswers ELSE {GeoMiss}

\* Add with g.set in the place of g.add: a triple replaces those of its subject and predicate
Add_replacing(adds, b) ==
    /\ adds \subseteq g \/ nrows < MaxRows
    /\ g' = {t \in g : \A a \in adds : a[1] # t[1] \/ a[2] # t[2] \/ a[3] = t[3]} \cup adds
    /\ nrows' = IF adds \subseteq g THEN nrows ELSE nrows + 1
    /\ lookups' = [u \in DOMAIN lookups \cup b.looked |->
                     (IF u \in DOMAIN lookups THEN lookups[u] ELSE 0)
                     + (IF u \in b.looked THEN 1 ELSE 0)]
    /\ first' = [u \in DOMAIN first \cup {m[1] : m \in b.met} |->
                     IF u \in DOMAIN first THEN first[u]
                     ELSE LET m == CHOOSE x \in b.met : x[1] = u IN <<m[2], m[3]>>]

\* the step of a processed row: the triples are added (g.add), the run's history is kept
Add(adds, b) ==
    /\ adds \subseteq g \/ nrows < MaxRows
    /\ g' = g \cup adds
    /\ nrows' = IF adds \subseteq g THEN nrows ELSE nrows + 1
    /\ lookups' = [u \in DOMAIN lookups \cup b.looked |->
                     (IF u \in DOMAIN lookups THEN lookups[u] ELSE 0)
                     + (IF u \in b.looked THEN 1 ELSE 0)]
    /\ first' = [u \in DOMAIN first \cup {m[1] : m \in b.met} |->
                     IF u \in DOMAIN first THEN first[u]
                     ELSE LET m == CHOOSE x \in b.met : x[1] = u IN <<m[2], m[3]>>]

\* one iteration of the instance row loop of script.py
ProcessRow(rule, row, geo) ==
    /\ variant = "script"
    /\ rule \in sheet.rules
    /\ row \in sheet_rows
    /\ geo \in geo_answers(rule)
    /\ ~rule_skipped(rule)
    /\ LET sheet_lower == sheet_lower_of(sheet)
           df == instances_dfs[sheet_lower]
           reg == get_namespace_registry(prefixes, RuleCell(rule.predicate))
           b == row_branch(g, reg, sheet_lower, rule, df, row, geo)
       IN  /\ ~row_missing(rule, df, row)
           /\ prefixes' = reg
           /\ Add(b.adds \cup primary(subj_uri_of(subj_val_of(rule, df, row)),
                                      rule_pred(reg, RuleCell(rule.predicate)), b), b)
    /\ UNCHANGED <<variant, sheet, call>>

\* one iteration of the instance row loop of script1.py
ProcessRow1(rule, row, geo) ==
    /\ variant = "script1"
    /\ rule \in sheet.rules
    /\ row \in sheet_rows
    /\ geo \in geo_answers(rule)
    /\ ~rule_skipped(rule)
    /\ LET sheet_lower == sheet_lower_of(sheet)
           df == instances_dfs[sheet_lower]
           reg == get_namespace_registry(prefixes, RuleCell(rule.predicate))
           b == row_branch1(g, reg, sheet_lower, rule, df, row, geo)
       IN  /\ ~row_missing(rule, df, row)
           /\ prefixes' = reg
           /\ Add(b.adds \cup primary1(sheet_lower, subj_uri_of(subj_val_of(rule, df, row)),
                                       rule_pred(reg, RuleCell(rule.predicate)), b), b)
    /\ UNCHANGED <<variant, sheet, call>>

\* every rule and every instance row of the workbooks
AllRules == UNION {sh.rules : sh \in MappingSheets}

AllRows == UNION {instances_dfs[n].rows : n \in DOMAIN instances_dfs}

Next ==
    \/ \E sh \in MappingSheets : SkipSheet(sh)
    \/ \E sh \in MappingSheets : OpenSheet(sh)
    \/ \E rule \in AllRules : SkipRule(rule)
    \/ \E rule \in AllRules, row \in AllRows : SkipRow(rule, row)
    \/ \E rule \in AllRules, row \in AllRows, geo \in GeoAnswers : ProcessRow(rule, row, geo)
    \/ \E rule \in AllRules, row \in AllRows, geo \in GeoAnswers : ProcessRow1(rule, row, geo)

Spec == Init /\ [][Next]_vars

\* ------------------------------------------------------------------ the utility functions

\* the longest label drawn as an input
MaxLabelLen == 3

\* the characters of the labels: a letter, a digit, white space, punctuation, the two
\* characters the safe label keeps besides word characters
LabelChars == {"A", "1", " ", ".", "-", "_"}

Labels == UNION {[1..k -> LabelChars] : k \in 0..MaxLabelLen}

\* no run is under way while the utility functions are called
InitCalls ==
    /\ variant \in {"script", "script1"}
    /\ g = {}
    /\ prefixes = IF variant = "script" THEN InitialPrefixes ELSE InitialPrefixes1
    /\ sheet = NoSheet
    /\ nrows = 0
    /\ lookups = <<>>
    /\ first = <<>>
    /\ call = NoCall

\* a call of a utility function, with what it was given and what it returned
Call(fn, arg, out) == [fn |-> fn, arg |-> arg, out |-> out]

\* one call is made and its result observed
CallSafeLabel(label) ==
    /\ call = NoCall
    /\ call' = Call("make_safe_uri_label", label, make_safe_uri_label(label))
    /\ UNCHANGED run_vars

\* the entity types script.py materializes
EntityTypes ==
    {RICO_Place, RICO_Date, RICO_Agent, RICO_Person, RICO_IDENTIFIER_CLASS, RICO_TITLE_CLASS}

\* raw values of entities; some have the same safe label
IdLabels == {<<"A">>, <<" ", "A">>, <<"A", ".">>, <<"A", " ", "1">>, <<"A", "_", "1">>, <<"1">>}

\* the canonical identifier script.py gives an entity of the type with the raw value
entity_uri_of(type, raw) ==
    IF type = RICO_Place THEN place_entity_uri(raw)
    ELSE IF type = RICO_Date THEN date_entity_uri(<<"S", "1">>, raw)
    ELSE IF type = RICO_Agent THEN agent_uri_of(InitialPrefixes, raw, NaN)
    ELSE IF type = RICO_Person THEN agent_uri_of(InitialPrefixes, raw, <<"1", "2">>)
    ELSE IF type = RICO_IDENTIFIER_CLASS
    THEN shared_branch({}, ns_ident, RICO_IDENTIFIER_CLASS, raw).term.v
    ELSE shared_branch({}, ns_title, RICO_TITLE_CLASS, raw).term.v

\* the identifiers of two entities are constructed
CallEntityUri(type1, raw1, type2, raw2) ==
    /\ variant = "script"
    /\ call = NoCall
    /\ call' = Call("entity_uri", <<type1, raw1, type2, raw2>>,
                    <<entity_uri_of(type1, raw1), entity_uri_of(type2, raw2)>>)
    /\ UNCHANGED run_vars

\* date fragments: years, days, strings that are neither
DateFragments ==
    {<<"2", "0", "2", "0">>, <<"2", "0", "2", "1">>, <<"2", "0", "2", "0", "0", "1", "0", "1">>, <<"2", "0", "2", "0", "1", "2", "3", "1">>, <<"2", "0", "2">>, <<"2", "0", "a", "0">>, <<"2", "0", "2", "0", "0", "1", "0">>}

\* the values of a date cell: fragments, pairs of fragments, an empty cell (not a
\* string), values with white space around them, other strings
DateInputs ==
    DateFragments
    \cup {a \o <<"-">> \o b : a \in DateFragments, b \in DateFragments}
    \cup {NaN, <<>>, <<"n", "o", "t", "-", "a", "-", "d", "a", "t", "e">>, <<" ", "2", "0", "2", "0">>, <<"2", "0", "2", "0", "0", "1", "0", "1", " ">>, <<" ", "2", "0", "2", "0", "-", "2", "0", "2", "1", " ">>, <<"2", "0", "2", "0", " ", "-", " ", "2", "0", "2", "1">>,
          <<"2", "0", "2", "0", "-", "-", "2", "0", "2", "1">>, <<"2", "0", "2", "0", "-", "2", "0", "2", "1", "-", "2", "0", "2", "2">>, <<"-", "2", "0", "2", "0">>, <<"2", "0", "2", "0", "-">>, <<"2", "0", "2", "0", "/", "2", "0", "2", "1">>}

CallParseDates(date_str) ==
    /\ call = NoCall
    /\ call' = Call("parse_normalized_dates", date_str, parse_normalized_dates(date_str))
    /\ UNCHANGED run_vars

\* fragments of 8 characters: a year, a month and a day, valid or not
FormatYears == {<<"2", "0", "2", "0">>, <<"2", "0", "2", "3">>, <<"1", "9", "0", "0">>, <<"2", "0", "0", "0">>, <<"0", "0", "0", "0">>}

FormatMonths == {<<"0", "0">>, <<"0", "1">>, <<"0", "2">>, <<"0", "4">>, <<"1", "2">>, <<"1", "3">>}

FormatDays == {<<"0", "0">>, <<"0", "1">>, <<"2", "8">>, <<"2", "9">>, <<"3", "0">>, <<"3", "1">>, <<"3", "2">>, <<" ", "5">>}

\* the fragments given to format_date_for_xsd: of 8 characters, of 4 characters, others
FormatInputs ==
    {y \o m \o d : y \in FormatYears, m \in FormatMonths, d \in FormatDays}
    \cup {<<"2", "0", "2", "0">>, <<"0", "0", "0", "0">>, <<"2", "0", "a", "0">>, <<"-", "2", "0", "2">>, <<"+", "2", "0", "2">>, <<" ", "2", "0", "2">>, <<"2", "_", "0", "2">>, <<"2", "0", ".", "0">>}
    \cup {None, <<>>, <<"2", "0", "2">>, <<"2", "0", "2", "0", "0">>, <<"2", "0", "2", "0", "-", "0", "1", "-", "0", "1">>}

CallFormatDate(date_str) ==
    /\ call = NoCall
    /\ call' = Call("format_date_for_xsd", date_str, format_date_for_xsd(date_str))
    /\ UNCHANGED run_vars

\* the groups a Consistenza cell is made of
RangeGroups ==
    {<<"f", "a", "s", "c", ".", " ", "4">>, <<"B", "u", "s", "t", "a", " ", "2", ",", " ", "f", "a", "s", "c", " ", "1">>, <<"b", "u", "s", "t", "a", " ", "5", "-", "3", ",", " ", "f", "a", "s", "c", ".", " ", "5">>, <<"b", "u", "s", "t", "e", " ", "1", "-", "2", ",", " ", "f", "a", "s", "c", "c", ".", " ", "1", "+", "3", ",", " ", "f", "a", "s", "c", " ", "7">>,
     <<"f", "a", "s", "c", " ", "1", ",", " ", "b", "u", "s", "t", "a", " ", "3", ",", " ", "f", "a", "s", "c", ".", " ", "2">>, <<"B", "u", "s", "t", ".", " ", "1", " ", "f", "a", "s", "c", " ", "2", " ", "b", "u", "s", "t", "a", " ", "4", " ", "f", "a", "s", "c", ".", " ", "3">>, <<"c", "a", "r", "t", "e", " ", "3">>, <<>>}

\* the cells: one group, two groups, some of three
RangeCells ==
    RangeGroups
    \cup {a \o <<";", " ">> \o b : a \in RangeGroups, b \in RangeGroups}
    \cup {<<"B", "u", "s", "t", "a", " ", "2", ";", "f", "a", "s", "c", " ", "1", ";", "f", "a", "s", "c", ".", " ", "4">>, <<"f", "a", "s", "c", " ", "1", ";", "b", "u", "s", "t", "a", " ", "2", ";", "f", "a", "s", "c", " ", "1">>, <<"b", "u", "s", "t", "a", " ", "1", ";", ";", "f", "a", "s", "c", " ", "2", ";", " ", "b", "u", "s", "t", "a", " ", "3", " ", "f", "a", "s", "c", " ", "4">>}

\* the range logic expands the cell of record S: the children it links
CallRange(obj_val_str) ==
    /\ variant = "script"
    /\ call = NoCall
    /\ call' = Call("range_adds", obj_val_str,
                    {t[3].v : t \in range_adds(<<"S">>, subj_uri_of(<<"S">>),
                                               ns_rico \o <<"i", "n", "c", "l", "u", "d", "e", "s">>, obj_val_str)})
    /\ UNCHANGED run_vars

\* the tokens of a number list: numbers, ranges, reversed and malformed ranges, blanks
NumsParts ==
    {<<"1">>, <<"1", "2">>, <<"5", "-", "7">>, <<"7", "-", "5">>, <<"3", "-", "3">>, <<"2", " ", "-", " ", "4">>, <<"-", "3">>, <<"3", "-">>, <<"1", "-", "2", "-", "3">>, <<"1", " ", "2">>, <<"-">>, <<>>}

\* the number lists: one token, two tokens joined by a comma or a plus sign, with or
\* without a blank after it, some longer lists
NumsInputs ==
    NumsParts
    \cup {a \o sep \o b : a \in NumsParts, b \in NumsParts, sep \in {<<",">>, <<"+">>, <<",", " ">>}}
    \cup {<<"1", ",", "-", "3", ",", "5", "-", "7">>, <<"1", "+", "1", " ", "2", "+", "3">>, <<"1", "-", "2", "-", "3", ",", "4", ",", "7", "-", "5", ",", "6">>, <<",", " ", ",", "2", ",", ",", " ", "3", " ", ",">>, <<"1", " ", "-", " ", "2", " ", ",", " ", "4", "+", "6", "-", "8">>}

\* the number list of one match is expanded
CallExpandedNums(nums_str) ==
    /\ variant = "script"
    /\ call = NoCall
    /\ call' = Call("expanded_nums", nums_str, expanded_nums(nums_str))
    /\ UNCHANGED run_vars

\* Predicate and Object cells of a mapping sheet whose prefix is registered
TermCells == {<<"e", "x", ":", "n", "o", "t", "e">>, <<"r", "i", "c", "o", ":", "t", "i", "t", "l", "e">>, <<"H", "t", "t", "p", ":", "n", "o", "t", "e">>, <<"h", "t", "t", "p", "x", ":", "n", "o", "t", "e">>, <<"p", "l", "a", "i", "n">>}

\* object values the term classifier is given
ObjectValues ==
    {None, <<>>, <<"p", "l", "a", "i", "n">>, <<" ", "p", "a", "d", "d", "e", "d", " ">>, <<"r", "i", "c", "o", ":", "P", "e", "r", "s", "o", "n">>, <<"e", "x", ":", "a">>, <<"z", "z", ":", "y">>, <<"a", ":", "b", ":", "c">>, <<":", "x">>,
     <<"H", "t", "t", "p", ":", "x">>, <<"h", "t", "t", "p", "x", ":", "y">>, <<"h", "t", "t", "p", ":", "/", "/", "e", "x", "a", "m", "p", "l", "e", ".", "o", "r", "g", "/", "a">>, <<"H", "T", "T", "P", "S", ":", "/", "/", "e", "x", "a", "m", "p", "l", "e", ".", "o", "r", "g", "/", "a", ":", "b">>,
     <<"w", "w", "w", ".", "e", "x", "a", "m", "p", "l", "e", ".", "o", "r", "g">>, <<"W", "W", "W", ".", "x", ":", "y">>, <<"v", "i", "a", "f", ".", "o", "r", "g", "/", "v", "i", "a", "f", "/", "1", "2">>, <<"/", "/", "v", "i", "a", "f", ".", "o", "r", "g", "/", "v", "i", "a", "f", "/", "1", "2">>,
     <<"h", "t", "t", "p", ":", "/", "/", "v", "i", "a", "f", ".", "o", "r", "g", "/", "v", "i", "a", "f", "/", "1", "2">>, <<"e", "x", ":", "v", "i", "a", "f", ".", "o", "r", "g", "/", "v", "i", "a", "f", "/", "1", "2">>, <<"v", "i", "a", "f", ".", "o", "r", "g", "/", "v", "i", "a", "f", "/">>, <<"x", "v", "i", "a", "f", ".", "o", "r", "g", "/", "v", "i", "a", "f", "/", "1", "2">>}

\* a cell of a mapping sheet is registered, then an object value is classified
CallDetectObjectTerm(term, obj_val_str) ==
    /\ call = NoCall
    /\ call' = Call("detect_object_term", <<term, obj_val_str>>,
                    detect_object_term(obj_val_str, get_namespace_registry(prefixes, term)))
    /\ UNCHANGED run_vars

NextCalls ==
    \/ \E label \in Labels : CallSafeLabel(label)
    \/ \E type1 \in EntityTypes, raw1 \in IdLabels, type2 \in EntityTypes, raw2 \in IdLabels :
          CallEntityUri(type1, raw1, type2, raw2)
    \/ \E date_str \in DateInputs : CallParseDates(date_str)
    \/ \E date_str \in FormatInputs : CallFormatDate(date_str)
    \/ \E obj_val_str \in RangeCells : CallRange(obj_val_str)
    \/ \E nums_str \in NumsInputs : CallExpandedNums(nums_str)
    \/ \E term \in TermCells, obj_val_str \in ObjectValues : CallDetectObjectTerm(term, obj_val_str)

SpecCalls == InitCalls /\ [][NextCalls]_vars

\* ------------------------------------------------------------------ the rows a run has linked

\* the VIAF cell the agent branch of the sheet reads
viaf_code_of(sheet_lower, df, row) ==
    IF sheet_lower = <<"d", "o", "c", "u", "m", "e", "n", "t", "o">> THEN viaf_code_documento(df, row)
    ELSE viaf_code_fascicolo(df, row)

\* the rule takes one of the two Person / Agent branches of script.py
agent_rule(reg, sheet_lower, rule) ==
    \/ documento_agent_rule(sheet_lower, rule)
    \/ fascicolo_agent_rule(sheet_lower, rule_pred(reg, RuleCell(rule.predicate)))

\* the (rule, row) pairs of the current sheet whose value is present
pairs ==
    IF sheet = NoSheet THEN {}
    ELSE {p \in rules_applied \X sheet_rows :
            ~row_missing(p[1], instances_dfs[sheet_lower_of(sheet)], p[2])}

pair_pred(p) == rule_pred(prefixes, RuleCell(p[1].predicate))

pair_subj_val(p) == subj_val_of(p[1], instances_dfs[sheet_lower_of(sheet)], p[2])

pair_subj(p) == subj_uri_of(pair_subj_val(p))

pair_obj(p) == Strip(obj_val_of(p[1], instances_dfs[sheet_lower_of(sheet)], p[2]))

pair_viaf(p) == viaf_code_of(sheet_lower_of(sheet), instances_dfs[sheet_lower_of(sheet)], p[2])

\* the Person or Agent the row of the pair selects
pair_agent(p) == agent_uri_of(prefixes, pair_obj(p), pair_viaf(p))

\* the pairs an agent branch of script.py has processed: the record links to the agent
agent_linked ==
    IF variant # "script" THEN {}
    ELSE {p \in pairs : /\ agent_rule(prefixes, sheet_lower_of(sheet), p[1])
                        /\ InGraph(g, pair_subj(p), pair_pred(p), URIRef(pair_agent(p)))}

\* the authority-id field of the row is present and non-empty
field_present(viaf_code) == ~isna(viaf_code) /\ Len(Strip(viaf_code)) > 0

\* the subjects of the graph
subjects == {t[1] : t \in g}

\* ------------------------------------------------------------------ C1

\* C1 (as claimed): when an agent-producing rule of script.py has been applied to a row,
\* the entity the row links to is typed Person and has exactly one owl:sameAs link if the
\* row's authority-id field is present and non-empty, and is typed Agent and has no
\* owl:sameAs link if the field is absent or empty.
C1_AuthorityIdDecidesType ==
    variant = "script" =>
        \A p \in agent_linked :
            IF field_present(pair_viaf(p))
            THEN /\ Objects(g, pair_agent(p), RDF_type) = {URIRef(RICO_Person)}
                 /\ Cardinality(Objects(g, pair_agent(p), OWL_sameAs)) = 1
            ELSE /\ Objects(g, pair_agent(p), RDF_type) = {URIRef(RICO_Agent)}
                 /\ Objects(g, pair_agent(p), OWL_sameAs) = {}

\* ------------------------------------------------------------------ C2

\* C2 (as claimed): the graph never holds a Person-typed entity and an Agent-typed entity
\* with the same label, and the rows that mention one label all link to one entity.
C2_OneTypePerLabel ==
    /\ \A u1, u2 \in subjects :
          ~ /\ InGraph(g, u1, RDF_type, URIRef(RICO_Person))
            /\ InGraph(g, u2, RDF_type, URIRef(RICO_Agent))
            /\ Objects(g, u1, RDFS_label) \cap Objects(g, u2, RDFS_label) # {}
    /\ \A p, q \in agent_linked : pair_obj(p) = pair_obj(q) => pair_agent(p) = pair_agent(q)

\* C2 (amended): in script.py the decision is made per row and fixed per entity: an agent
\* entity has one type, that of its first encounter, it is a Person exactly when it lies
\* under person/, and every processed row links to an entity of the type its own
\* authority-id field selects.
C2_TypeFixedPerEntity ==
    variant = "script" =>
        /\ \A u \in DOMAIN first :
              first[u][1] \in {RICO_Person, RICO_Agent} =>
                  /\ Objects(g, u, RDF_type) = {URIRef(first[u][1])}
                  /\ first[u][1] = RICO_Person <=> StartsWith(u, prefixes[<<"p", "e", "r", "s", "o", "n">>])
        /\ \A p \in agent_linked :
              Objects(g, pair_agent(p), RDF_type) = {URIRef(agent_type(pair_viaf(p)))}

\* one label was met with and without an authority id: both entities are in the graph
C2_Witness ==
    /\ variant = "script"
    /\ InGraph(g, BASE_NS \o <<"p", "e", "r", "s", "o", "n", "/", "M", "a", "r", "i", "o", "_", "R", "o", "s", "s", "i">>, RDF_type, URIRef(RICO_Person))
    /\ InGraph(g, BASE_NS \o <<"a", "g", "e", "n", "t", "/", "M", "a", "r", "i", "o", "_", "R", "o", "s", "s", "i">>, RDF_type, URIRef(RICO_Agent))

\* ------------------------------------------------------------------ C3

\* C3: every entity a run has met has exactly one type triple and exactly one label
\* triple, those of its first encounter; later encounters, also under another raw value
\* with the same safe label, leave them alone.
C3_DefinedOnce ==
    \A u \in DOMAIN first :
        /\ Objects(g, u, RDF_type) = {URIRef(first[u][1])}
        /\ Objects(g, u, RDFS_label) = {Literal(first[u][2], None)}

\* two records cite one identifier under different raw values ("A 1" and "A 1.")
C3_Witness ==
    /\ InGraph(g, BASE_NS \o <<"S", "1">>, RICO_HAS_IDENTIFIER_URI, URIRef(ns_ident \o <<"A", "_", "1">>))
    /\ InGraph(g, BASE_NS \o <<"S", "2">>, RICO_HAS_IDENTIFIER_URI, URIRef(ns_ident \o <<"A", "_", "1">>))

\* ------------------------------------------------------------------ C4

\* C4 (as claimed): Date entities are scoped per owning subject: two different subjects
\* never link to one Date entity under the same date predicate.
C4_DatePerSubject ==
    \A t1, t2 \in g :
        (t1[2] \in DATE_PREDICATES /\ t1[2] = t2[2] /\ t1[1] # t2[1]) => t1[3] # t2[3]

\* ------------------------------------------------------------------ C5

\* the Date entity the variant names for a record and a date fragment
date_entity_of(subj_val, part) ==
    IF variant = "script" THEN date_entity_uri(subj_val, part) ELSE date_entity_uri1(subj_val, part)

\* every triple the row of the pair hands to g.add in the current state
pair_adds(p) ==
    IF variant = "script"
    THEN row_adds(g, prefixes, sheet_lower_of(sheet), p[1],
                  instances_dfs[sheet_lower_of(sheet)], p[2], GeoMiss)
    ELSE row_adds1(g, prefixes, sheet_lower_of(sheet), p[1],
                   instances_dfs[sheet_lower_of(sheet)], p[2], GeoMiss)

\* the objects of the record's links under pred are Date entities labelled with part
links_only(subj_val, pred, part) ==
    \A o \in Objects(g, subj_uri_of(subj_val), pred) :
        /\ o = URIRef(date_entity_of(subj_val, part))
        /\ Literal(part, None) \in Objects(g, o.v, RDFS_label)

\* C5: for the date value of a row, a range gives only beginning-date and end-date links
\* (to the start and the end fragment) and no creation-date link, a single date gives
\* only a creation-date link and no begin/end link, and the row of a date rule whose
\* predicate does not fit the shape of the value hands nothing to the graph.
C5_RangeOrSingle ==
    \A p \in pairs :
        pair_pred(p) \in DATE_PREDICATES =>
            LET dates == parse_normalized_dates(pair_obj(p))
                subj == pair_subj(p)
            IN  /\ ~Falsy(dates[2]) =>
                      /\ Objects(g, subj, RICO_HAS_CREATION_DATE) = {}
                      /\ links_only(pair_subj_val(p), RICO_HAS_BEGIN_DATE, dates[1])
                      /\ links_only(pair_subj_val(p), RICO_HAS_END_DATE, dates[2])
                /\ Falsy(dates[2]) =>
                      /\ Objects(g, subj, RICO_HAS_BEGIN_DATE) = {}
                      /\ Objects(g, subj, RICO_HAS_END_DATE) = {}
                      /\ links_only(pair_subj_val(p), RICO_HAS_CREATION_DATE, dates[1])
                /\ Falsy(date_uri_part(pair_pred(p), pair_obj(p))) => pair_adds(p) = {}

\* a record with a range has its two links, a record with a single date its one link
C5_Witness ==
    /\ Objects(g, BASE_NS \o <<"S", "1">>, RICO_HAS_BEGIN_DATE) # {}
    /\ Objects(g, BASE_NS \o <<"S", "3">>, RICO_HAS_CREATION_DATE) # {}

\* ------------------------------------------------------------------ C6

\* the containment links of record S1
S1_children == Objects(g, BASE_NS \o <<"S", "1">>, ns_rico \o <<"i", "n", "c", "l", "u", "d", "e", "s">>)

S1_child(suffix) == URIRef(BASE_NS \o <<"S", "1">> \o suffix)

\* C6 (as claimed): the cell "buste 1-3, fascc. 1-2" of record S1 gives the three outer
\* children and, under each of them, the two inner children: 9 containment triples.
C6_NineChildren ==
    S1_children # {} =>
        S1_children = { S1_child(<<"_", "B", "1">>), S1_child(<<"_", "B", "2">>), S1_child(<<"_", "B", "3">>),
                        S1_child(<<"_", "B", "1", "_", "0", "0", "1">>), S1_child(<<"_", "B", "1", "_", "0", "0", "2">>),
                        S1_child(<<"_", "B", "2", "_", "0", "0", "1">>), S1_child(<<"_", "B", "2", "_", "0", "0", "2">>),
                        S1_child(<<"_", "B", "3", "_", "0", "0", "1">>), S1_child(<<"_", "B", "3", "_", "0", "0", "2">>) }

\* C6 (amended): in script.py the cell gives the three outer children and the two inner
\* children under the last outer number only, 5 containment triples; script1.py has no
\* range logic and links the record to the cell as one literal.
C6_FiveChildren ==
    S1_children # {} =>
        IF variant = "script"
        THEN S1_children = { S1_child(<<"_", "B", "1">>), S1_child(<<"_", "B", "2">>), S1_child(<<"_", "B", "3">>),
                             S1_child(<<"_", "B", "3", "_", "0", "0", "1">>), S1_child(<<"_", "B", "3", "_", "0", "0", "2">>) }
        ELSE S1_children = { Literal(<<"b", "u", "s", "t", "e", " ", "1", "-", "3", ",", " ", "f", "a", "s", "c", "c", ".", " ", "1", "-", "2">>, XSD_string) }

\* script.py has expanded the cell of S1
C6_Witness == variant = "script" /\ S1_child(<<"_", "B", "3", "_", "0", "0", "2">>) \in S1_children

\* ------------------------------------------------------------------ C7

\* C7: the gazetteer is asked at most once for every Place entity of a run, also when
\* several records cite the place and when the first answer was a miss.
C7_EnrichedOnce == \A u \in DOMAIN lookups : lookups[u] <= 1

\* two records cite Bologna, the gazetteer was asked once
C7_Witness ==
    /\ BASE_NS \o <<"p", "l", "a", "c", "e", "/", "B", "o", "l", "o", "g", "n", "a">> \in DOMAIN lookups
    /\ InGraph(g, BASE_NS \o <<"D", "1">>, RICO_ASSOC_PLACE_URI, URIRef(BASE_NS \o <<"p", "l", "a", "c", "e", "/", "B", "o", "l", "o", "g", "n", "a">>))
    /\ InGraph(g, BASE_NS \o <<"D", "2">>, RICO_ASSOC_PLACE_URI, URIRef(BASE_NS \o <<"p", "l", "a", "c", "e", "/", "B", "o", "l", "o", "g", "n", "a">>))

\* ------------------------------------------------------------------ C8

\* C8 (as claimed): every record that links to a Place carries the copies of the feature
\* class and the feature code the Place has.
C8_ShortcutsOnEveryRecord ==
    \A t \in g :
        (t[2] \in PLACE_PREDICATES /\ t[3].k = "uri") =>
            /\ Objects(g, t[3].v, GN_featureClass) \subseteq Objects(g, t[1], GN_featureClass)
            /\ Objects(g, t[3].v, GN_featureCode) \subseteq Objects(g, t[1], GN_featureCode)

\* ------------------------------------------------------------------ C10

\* C10: no step of a run removes or replaces a triple: the graph after a step holds
\* every triple of the graph before it.
C10_AddOnly == [][g \subseteq g']_vars

\* two rows have each given record S1 a normalized date value
C10_Witness == Cardinality(Objects(g, BASE_NS \o <<"S", "1">>, RICO_NORMALIZED_DATE)) = 2

\* ------------------------------------------------------------------ C11

\* the entity class and the namespace of an identifier or title predicate
shared_class(pred) ==
    IF pred = RICO_HAS_IDENTIFIER_URI THEN RICO_IDENTIFIER_CLASS ELSE RICO_TITLE_CLASS

shared_ns(pred) == IF pred = RICO_HAS_IDENTIFIER_URI THEN ns_ident ELSE ns_title

\* C11 (as claimed): the identifier (title) link of a record points to the one Identifier
\* (Title) entity named after the safe label of the value, and that entity has exactly
\* one type triple and exactly one label triple.
C11_SharedIdentifierTitle ==
    \A p \in pairs :
        pair_pred(p) \in {RICO_HAS_IDENTIFIER_URI, RICO_HAS_TITLE_URI} =>
            \A o \in Objects(g, pair_subj(p), pair_pred(p)) :
                /\ o = URIRef(shared_ns(pair_pred(p)) \o make_safe_uri_label(pair_obj(p)))
                /\ Objects(g, o.v, RDF_type) = {URIRef(shared_class(pair_pred(p)))}
                /\ Cardinality(Objects(g, o.v, RDFS_label)) = 1

\* ------------------------------------------------------------------ C13

\* C13: the safe label of a safe label is that safe label.
C13_SafeLabelIdempotent ==
    call.fn = "make_safe_uri_label" => make_safe_uri_label(call.out) = call.out

\* a label that loses its punctuation and has its white space replaced
C13_Witness == call.fn = "make_safe_uri_label" /\ call.arg = <<"A", " ", ".">> /\ call.out = <<"A", "_">>

\* ------------------------------------------------------------------ C12

\* C12: the identifiers script.py constructs for two entities are equal exactly when the
\* entities have the same type and the same safe label.
C12_IdentifierInjective ==
    call.fn = "entity_uri" =>
        (call.out[1] = call.out[2]
            <=> /\ call.arg[1] = call.arg[3]
                /\ make_safe_uri_label(call.arg[2]) = make_safe_uri_label(call.arg[4]))

\* an Agent and a Person with raw values of one safe label have different identifiers
C12_Witness ==
    /\ call.fn = "entity_uri"
    /\ call.arg = <<RICO_Agent, <<"A", ".">>, RICO_Person, <<" ", "A">>>>
    /\ call.out[1] # call.out[2]

\* ------------------------------------------------------------------ C14

\* s consists of n digits
DigitString(s, n) == Len(s) = n /\ \A i \in 1..Len(s) : s[i] \in Digits

\* s is two strings of n digits joined by one dash
DigitPair(s, n) ==
    /\ Len(s) = 2 * n + 1
    /\ DigitString(SubSeq(s, 1, n), n)
    /\ s[n + 1] = "-"
    /\ DigitString(SubSeq(s, n + 2, 2 * n + 1), n)

\* what the four shapes give for s
four_shapes(s) ==
    IF DigitPair(s, 8) THEN <<SubSeq(s, 1, 8), SubSeq(s, 10, 17)>>
    ELSE IF DigitPair(s, 4) THEN <<SubSeq(s, 1, 4), SubSeq(s, 6, 9)>>
    ELSE IF DigitString(s, 8) \/ DigitString(s, 4) THEN <<s, None>>
    ELSE <<None, None>>

\* C14 (as claimed): parse_normalized_dates returns (start, end) for a pair of 8-digit or
\* of 4-digit strings joined by one dash, (value, None) for a bare 8-digit or 4-digit
\* string and (None, None) for every other input.
C14_FourShapes ==
    call.fn = "parse_normalized_dates" => call.out = four_shapes(call.arg)

\* C14 (amended): parse_normalized_dates removes the white space around a string and then
\* returns (start, end) for a pair of 8-digit or of 4-digit strings joined by one dash,
\* (value, None) for a bare 8-digit or 4-digit string and (None, None) for every other
\* input, also for one that is not a string or a pair of mixed widths.
C14_FourShapesStripped ==
    call.fn = "parse_normalized_dates" => call.out = four_shapes(Strip(call.arg))

\* a pair of mixed widths is not a range
C14_Witness ==
    /\ call.fn = "parse_normalized_dates"
    /\ call.arg = <<"2", "0", "2", "0", "-", "2", "0", "2", "0", "0", "1", "0", "1">>
    /\ call.out = <<None, None>>

\* ------------------------------------------------------------------ C15

\* the number a string of digits denotes
RECURSIVE digits_number(_)
digits_number(s) ==
    IF Len(s) = 0 THEN 0
    ELSE 10 * digits_number(SubSeq(s, 1, Len(s) - 1))
         + (CHOOSE d \in 0..9 : DigitSeq[d + 1] = s[Len(s)])

\* the length of month m of year y
month_length(y, m) ==
    IF m \in {4, 6, 9, 11} THEN 30
    ELSE IF m # 2 THEN 31
    ELSE IF y % 400 = 0 \/ (y % 4 = 0 /\ y % 100 # 0) THEN 29 ELSE 28

\* the 8 digits of s denote a day of the calendar
calendar_date(s) ==
    LET y == digits_number(SubSeq(s, 1, 4))
        m == digits_number(SubSeq(s, 5, 6))
        d == digits_number(SubSeq(s, 7, 8))
    IN  m \in 1..12 /\ d \in 1..month_length(y, m)

\* C15 (as claimed): format_date_for_xsd maps a fragment of 8 digits to (YYYY-MM-DD,
\* xsd:date) when it denotes a day of the calendar and to (None, None) when it does not,
\* a fragment of 4 digits to (the same 4 digits, xsd:gYear), any other fragment to
\* (None, None).
C15_TypedValue ==
    call.fn = "format_date_for_xsd" =>
        LET s == call.arg
        IN  call.out =
              IF s # None /\ DigitString(s, 8)
              THEN IF calendar_date(s)
                   THEN <<SubSeq(s, 1, 4) \o <<"-">> \o SubSeq(s, 5, 6) \o <<"-">> \o SubSeq(s, 7, 8),
                          XSD \o <<"d", "a", "t", "e">>>>
                   ELSE <<None, None>>
              ELSE IF s # None /\ DigitString(s, 4) THEN <<s, XSD \o <<"g", "Y", "e", "a", "r">>>>
              ELSE <<None, None>>

\* ------------------------------------------------------------------ C16

\* the fragment is 8 digits that denote no day of the calendar
invalid_date(fragment) ==
    fragment # None /\ DigitString(fragment, 8) /\ ~calendar_date(fragment)

\* C16 (as claimed): a date fragment of 8 digits that denotes no day of the calendar
\* leaves nothing in the graph: no Date entity and no link from the record to one.
C16_InvalidDateDropped ==
    \A p \in pairs :
        pair_pred(p) \in DATE_PREDICATES =>
            \A i \in 1..2 :
                LET fragment == parse_normalized_dates(pair_obj(p))[i]
                    entity_uri == date_entity_of(pair_subj_val(p), fragment)
                IN  invalid_date(fragment) =>
                        /\ entity_uri \notin subjects
                        /\ \A t \in g : t[1] = pair_subj(p) => t[3] # URIRef(entity_uri)

\* ------------------------------------------------------------------ C17

\* the subject cell or the object cell of the pair is empty
cell_missing(rule, row) ==
    LET df == instances_dfs[sheet_lower_of(sheet)]
    IN  isna(subj_val_of(rule, df, row)) \/ isna(obj_val_of(rule, df, row))

\* the step handles the pair of the rule and the row of the current sheet
pair_step(rule, row) ==
    \/ SkipRow(rule, row)
    \/ \E geo \in GeoAnswers : ProcessRow(rule, row, geo) \/ ProcessRow1(rule, row, geo)

\* C17: the step of a (rule, row) pair whose subject or object value is missing leaves
\* the graph and the prefix registry as they were.
C17_MissingValueSkipped ==
    [][ \/ g' = g /\ prefixes' = prefixes
        \/ \A rule \in AllRules, row \in AllRows :
              ~ /\ sheet # NoSheet
                /\ rule \in sheet.rules
                /\ row \in sheet_rows
                /\ cell_missing(rule, row)
                /\ pair_step(rule, row) ]_vars

\* a row of the sheet has been processed and another row lacks the sender
C17_Witness ==
    /\ sheet # NoSheet
    /\ sheet_lower_of(sheet) = <<"f", "a", "s", "c", "i", "c", "o", "l", "o">>
    /\ InGraph(g, BASE_NS \o <<"S", "3">>, RICO_hasSender, URIRef(BASE_NS \o <<"a", "g", "e", "n", "t", "/", "M", "a", "r", "i", "o", "_", "R", "o", "s", "s", "i">>))
    /\ \E rule \in rules_applied, row \in sheet_rows :
          /\ rule_pred(prefixes, RuleCell(rule.predicate)) = RICO_hasSender
          /\ cell_missing(rule, row)

\* ------------------------------------------------------------------ C18

\* the mapping sheet lacks a required rule column or has no matching instance sheet
bad_sheet(sh) ==
    \/ \E col \in required_cols : col \notin sh.columns
    \/ \A name \in DOMAIN instances_dfs : name # sheet_lower_of(sh)

\* C18: a mapping sheet that lacks a required rule column, or that has no matching
\* instance sheet, never becomes the sheet whose rules are applied, so it contributes
\* no triple, and the step that meets it leaves the graph, the prefix registry, the
\* row count, the lookups and the first-encounter records as they were: the sheets
\* after it are processed from the state they would start from were it absent
C18_BadSheetSkipped ==
    [][ /\ \A sh \in MappingSheets : bad_sheet(sh) => sheet' # sh
        /\ sheet' = NoSheet => UNCHANGED <<variant, g, prefixes, nrows, lookups, first>> ]_vars

\* a bad sheet was met after an earlier sheet had written its triples, which are kept
C18_Witness ==
    /\ sheet = NoSheet
    /\ \E sh \in MappingSheets : bad_sheet(sh)
    /\ InGraph(g, BASE_NS \o <<"S", "3">>, RICO_hasSender, URIRef(BASE_NS \o <<"a", "g", "e", "n", "t", "/", "M", "a", "r", "i", "o", "_", "R", "o", "s", "s", "i">>))

\* ------------------------------------------------------------------ C19

\* the triples one iteration of the instance row loop hands to g.add, in the running variant
loop_adds(graph, rule, row, geo) ==
    LET sheet_lower == sheet_lower_of(sheet)
        reg == get_namespace_registry(prefixes, RuleCell(rule.predicate))
    IN  IF variant = "script"
        THEN row_adds(graph, reg, sheet_lower, rule, instances_dfs[sheet_lower], row, geo)
        ELSE row_adds1(graph, reg, sheet_lower, rule, instances_dfs[sheet_lower], row, geo)

\* the canonical identifiers of the entities the row refers to under the rule
loop_entities(rule, row, geo) ==
    LET sheet_lower == sheet_lower_of(sheet)
        reg == get_namespace_registry(prefixes, RuleCell(rule.predicate))
        b == IF variant = "script"
             THEN row_branch(g, reg, sheet_lower, rule, instances_dfs[sheet_lower], row, geo)
             ELSE row_branch1(g, reg, sheet_lower, rule, instances_dfs[sheet_lower], row, geo)
    IN  {m[1] : m \in b.met}

\* the graph after the first row and then the second were processed under the rule
after_both(rule, row1, geo1, row2, geo2) ==
    LET g1 == g \cup loop_adds(g, rule, row1, geo1)
    IN  g1 \cup loop_adds(g1, rule, row2, geo2)

\* two rows of the current sheet the rule processes, with different subjects
two_subjects(rule, row1, row2) ==
    LET df == instances_dfs[sheet_lower_of(sheet)]
    IN  /\ ~row_missing(rule, df, row1)
        /\ ~row_missing(rule, df, row2)
        /\ subj_val_of(rule, df, row1) # subj_val_of(rule, df, row2)

\* the groups of the cell joined again, from group k down to the first
RECURSIVE groups_reversed(_, _)
groups_reversed(groups, k) ==
    IF k = 0 THEN <<>>
    ELSE IF k = 1 THEN groups[1]
    ELSE groups[k] \o <<";">> \o groups_reversed(groups, k - 1)

\* the rule's cell of the row expands to the same children when its groups are reversed
groups_commute(rule, row) ==
    LET df == instances_dfs[sheet_lower_of(sheet)]
        reg == get_namespace_registry(prefixes, RuleCell(rule.predicate))
        final_pred == rule_pred(reg, RuleCell(rule.predicate))
        subj_val == subj_val_of(rule, df, row)
        obj_val_str == Strip(obj_val_of(rule, df, row))
        groups == Split(obj_val_str, ";")
    IN  (final_pred \in RANGE_PREDICATES /\ ~row_missing(rule, df, row))
        => range_adds(subj_val, subj_uri_of(subj_val), final_pred,
                      groups_reversed(groups, Len(groups)))
           = range_adds(subj_val, subj_uri_of(subj_val), final_pred, obj_val_str)

\* C19 as stated: any two instance rows with different subjects, processed in either
\* order, give the same final triple set, and so do the semicolon-separated groups of
\* one cell processed in either order
C19_OrderIndependent ==
    sheet # NoSheet =>
        \A rule \in rules_applied :
            /\ \A row \in sheet_rows : groups_commute(rule, row)
            /\ \A row1 \in sheet_rows, row2 \in sheet_rows, geo \in geo_answers(rule) :
                  two_subjects(rule, row1, row2)
                  => after_both(rule, row1, geo, row2, geo) = after_both(rule, row2, geo, row1, geo)

\* C19 amended: two instance rows with different subjects that refer to no common
\* entity, processed in either order, give the same final triple set, whatever the
\* gazetteer answers; the semicolon-separated groups of one cell processed in either
\* order give the same children
C19_UnrelatedRowsIndependent ==
    sheet # NoSheet =>
        \A rule \in rules_applied :
            /\ \A row \in sheet_rows : groups_commute(rule, row)
            /\ \A two \in {rows \in SUBSET sheet_rows : Cardinality(rows) = 2} :
                LET row1 == CHOOSE row \in two : TRUE
                    row2 == CHOOSE row \in two : row # row1
                IN  \A geo1 \in geo_answers(rule), geo2 \in geo_answers(rule) :
                      (/\ two_subjects(rule, row1, row2)
                       /\ loop_entities(rule, row1, geo1) \cap loop_entities(rule, row2, geo2) = {})
                      => after_both(rule, row1, geo1, row2, geo2)
                         = after_both(rule, row2, geo2, row1, geo1)

\* two records of the sheet that refer to entities of their own have both been processed
C19_Witness ==
    /\ sheet # NoSheet
    /\ sheet_lower_of(sheet) = <<"f", "a", "s", "c", "i", "c", "o", "l", "o">>
    /\ \E rule \in rules_applied, row1 \in sheet_rows, row2 \in sheet_rows :
          /\ two_subjects(rule, row1, row2)
          /\ loop_entities(rule, row1, GeoMiss) # {}
          /\ loop_entities(rule, row2, GeoMiss) # {}
          /\ loop_entities(rule, row1, GeoMiss) \cap loop_entities(rule, row2, GeoMiss) = {}
          /\ loop_adds({}, rule, row1, GeoMiss) \cup loop_adds({}, rule, row2, GeoMiss) \subseteq g

\* ------------------------------------------------------------------ C20

\* the objects record S3 includes; its cell is
\* "fasc. 4; Busta 2, fasc 1; busta 5-3, fasc. 5"
S3_children == Objects(g, BASE_NS \o <<"S", "3">>, ns_rico \o <<"i", "n", "c", "l", "u", "d", "e", "s">>)

S3_child(suffix) == URIRef(BASE_NS \o <<"S", "3">> \o suffix)

\* the subjects of the containment triples whose object is the term
parents_of(child) == {t[1] : t \in {x \in g : x[2] = ns_rico \o <<"i", "n", "c", "l", "u", "d", "e", "s">> /\ x[3] = child}}

\* C20 as stated: the inner number that comes before any outer token of its group gives
\* the fallback child, the inner number that follows an outer token of its group gives
\* a child built from the outer state, never the fallback child, and the inner numbers
\* that follow the outer list 1-3 are built from its last number 3
C20_OuterTokenCarried ==
    /\ S3_children # {} =>
          /\ {S3_child(<<"_", "F", "0", "0", "4">>), S3_child(<<"_", "B", "2">>), S3_child(<<"_", "B", "2", "_", "0", "0", "1">>)} \subseteq S3_children
          /\ S3_child(<<"_", "F", "0", "0", "1">>) \notin S3_children
          /\ S3_child(<<"_", "F", "0", "0", "5">>) \notin S3_children
    /\ S1_children # {} =>
          {S1_child(<<"_", "B", "3", "_", "0", "0", "1">>), S1_child(<<"_", "B", "3", "_", "0", "0", "2">>)} \subseteq S1_children

\* C20 amended: in script.py the state of a group is the last outer number expanded so
\* far in that group; an inner number gives parent + _B + state + _ + 3-digit number
\* when an outer number was expanded earlier in its group, and the fallback
\* parent + _F + 3-digit number otherwise, also after an outer token whose number list
\* expands to nothing; every child is linked from its parent subject alone; script1.py
\* has no range logic and links the cell as one string literal
C20_OuterNumberCarried ==
    /\ (variant = "script" /\ S3_children # {}) =>
          /\ S3_children = { S3_child(<<"_", "F", "0", "0", "4">>), S3_child(<<"_", "B", "2">>), S3_child(<<"_", "B", "2", "_", "0", "0", "1">>),
                             S3_child(<<"_", "F", "0", "0", "5">>) }
          /\ \A child \in S3_children : parents_of(child) = {BASE_NS \o <<"S", "3">>}
    /\ (variant = "script" /\ S1_children # {}) =>
          /\ {S1_child(<<"_", "B", "3", "_", "0", "0", "1">>), S1_child(<<"_", "B", "3", "_", "0", "0", "2">>)} \subseteq S1_children
          /\ \A suffix \in {<<"_", "B", "1", "_", "0", "0", "1">>, <<"_", "B", "1", "_", "0", "0", "2">>, <<"_", "B", "2", "_", "0", "0", "1">>, <<"_", "B", "2", "_", "0", "0", "2">>, <<"_", "F", "0", "0", "1">>, <<"_", "F", "0", "0", "2">>} :
                S1_child(suffix) \notin S1_children
          /\ \A child \in S1_children : parents_of(child) = {BASE_NS \o <<"S", "1">>}
    /\ (variant = "script1" /\ S3_children # {}) =>
          S3_children = {Literal(<<"f", "a", "s", "c", ".", " ", "4", ";", " ", "B", "u", "s", "t", "a", " ", "2", ",", " ", "f", "a", "s", "c", " ", "1", ";", " ", "b", "u", "s", "t", "a", " ", "5", "-", "3", ",", " ", "f", "a", "s", "c", ".", " ", "5">>, XSD_string)}

\* script.py has expanded the cell of record S3
C20_Witness == variant = "script" /\ S3_child(<<"_", "B", "2", "_", "0", "0", "1">>) \in S3_children

\* ------------------------------------------------------------------ C21

\* the matches of one group of a cell
group_matches(group) == finditer(Strip(group), 1)

\* match k names the outer container
outer_match(matches, k) == Contains(matches[k][1], <<"b", "u", "s", "t">>)

\* the matches before match k, in the same group, that expanded an outer number
outer_before(matches, k) ==
    {j \in 1..(k - 1) : outer_match(matches, j) /\ Len(expanded_nums(matches[j][2])) > 0}

\* the suffixes of the children of match k: an inner number is attached to the last
\* number of the nearest earlier outer match of its group, whatever lies between them,
\* and gets the fallback suffix when its group has none before it
match_suffixes(matches, k) ==
    LET nums == expanded_nums(matches[k][2])
        before == outer_before(matches, k)
        outer == expanded_nums(matches[Max(before)][2])
    IN  IF outer_match(matches, k)
        THEN {<<"_", "B">> \o NatStr(nums[i]) : i \in 1..Len(nums)}
        ELSE IF before = {}
        THEN {<<"_", "F">> \o Pad3(nums[i]) : i \in 1..Len(nums)}
        ELSE {<<"_", "B">> \o NatStr(outer[Len(outer)]) \o <<"_">> \o Pad3(nums[i]) : i \in 1..Len(nums)}

\* the children of a cell when every group is read on its own
cell_children(obj_val_str) ==
    LET groups == Split(obj_val_str, ";")
    IN  UNION { UNION { {child_uri(<<"S">>, suffix) :
                            suffix \in match_suffixes(group_matches(groups[n]), k)}
                        : k \in 1..Len(group_matches(groups[n])) }
                : n \in 1..Len(groups) }

\* C21: the outer number is forgotten at every semicolon and nowhere else: an inner
\* token is attached to the nearest earlier outer number of its own group, also when
\* other tokens lie between them, and gets the fallback identifier when its group has
\* no outer number before it, also when an earlier group of the cell had one
C21_ResetAtGroupBoundary ==
    call.fn = "range_adds" => call.out = cell_children(call.arg)

\* a cell whose first group has an outer number and whose second group has only an
\* inner token was expanded: the inner token got the fallback identifier
C21_Witness ==
    /\ call.fn = "range_adds"
    /\ call.arg = <<"B", "u", "s", "t", "a", " ", "2", ",", " ", "f", "a", "s", "c", " ", "1", ";", " ", "f", "a", "s", "c", ".", " ", "4">>
    /\ call.out = {child_uri(<<"S">>, <<"_", "B", "2">>), child_uri(<<"S">>, <<"_", "B", "2", "_", "0", "0", "1">>),
                   child_uri(<<"S">>, <<"_", "F", "0", "0", "4">>)}

\* ------------------------------------------------------------------ C22

\* the token is a number: digits, with or without blanks around them
numeric_token(tok) == Len(Strip(tok)) > 0 /\ AllDigits(Strip(tok))

\* the numbers one token of the list stands for: a number, every integer of a
\* dash-joined pair of numbers, nothing for any other token
token_numbers(tok) ==
    LET dashes == Cardinality(Occurrences(tok, <<"-">>))
        ends == Split(tok, "-")
        from == DigitsValue(Strip(ends[1]))
        to == DigitsValue(Strip(ends[2]))
    IN  IF dashes = 0
        THEN IF numeric_token(tok) THEN <<DigitsValue(Strip(tok))>> ELSE <<>>
        ELSE IF dashes = 1 /\ numeric_token(ends[1]) /\ numeric_token(ends[2])
        THEN [i \in 1..(IF to < from THEN 0 ELSE to - from + 1) |-> from + i - 1]
        ELSE <<>>

\* the numbers of the tokens from token k on, in the order of the list
RECURSIVE tokens_numbers(_, _)
tokens_numbers(toks, k) ==
    IF k > Len(toks) THEN <<>> ELSE token_numbers(toks[k]) \o tokens_numbers(toks, k + 1)

\* C22: a plus sign separates tokens as a comma does; a pair a-b stands for every
\* integer from a to b (for none when a > b), a lone number for itself, and a
\* malformed token (not a number, an endpoint missing, more than one dash) for
\* nothing, whatever the other tokens of the list are
C22_NumberListExpansion ==
    call.fn = "expanded_nums" =>
        call.out = tokens_numbers(Split(ReplaceChar(call.arg, "+", ","), ","), 1)

\* a list with a malformed token between a number and a range was expanded
C22_Witness ==
    /\ call.fn = "expanded_nums"
    /\ call.arg = <<"1", ",", "-", "3", ",", "5", "-", "7">>
    /\ call.out = <<1, 5, 6, 7>>

\* ------------------------------------------------------------------ C23

web_address(s) ==
    \/ StartsWith(Lower(s), <<"h", "t", "t", "p", ":", "/", "/">>)
    \/ StartsWith(Lower(s), <<"h", "t", "t", "p", "s", ":", "/", "/">>)
    \/ StartsWith(Lower(s), <<"w", "w", "w", ".">>)

\* the value with a scheme: its own, or https
with_scheme(s) ==
    IF StartsWith(Lower(s), <<"h", "t", "t", "p", ":", "/", "/">>) \/ StartsWith(Lower(s), <<"h", "t", "t", "p", "s", ":", "/", "/">>) THEN s
    ELSE <<"h", "t", "t", "p", "s", ":", "/", "/">> \o LStripSet(s, {"/"})

\* the registry the classifier is given in a call
call_registry == get_namespace_registry(prefixes, call.arg[1])

\* the three rules of the classifier, the first that applies wins
classified(obj_val_str, reg) ==
    LET s == IF obj_val_str = None THEN <<>> ELSE Strip(obj_val_str)
    IN  IF IsViafRef(s) \/ web_address(s) THEN URIRef(with_scheme(s))
        ELSE IF Contains(s, <<":">>) /\ BeforeFirst(s, ":") \in DOMAIN reg
        THEN URIRef(reg[BeforeFirst(s, ":")] \o AfterFirst(s, ":"))
        ELSE Literal(s, XSD_string)

\* C24: a value that matches the external-authority pattern or looks like a web
\* address becomes an absolute reference, with https as its scheme when it has none;
\* otherwise a value p:x whose prefix is registered becomes namespace(p) + x;
\* otherwise the value becomes a plain text literal
C24_FirstMatchWins ==
    call.fn = "detect_object_term" => call.out = classified(call.arg[2], call_registry)

\* ------------------------------------------------------------------ C25

\* the subjects of the instance rows: the records, named by their ID cell
record_uris == {subj_uri_of(row[1]) : row \in {r \in AllRows : ~isna(r[1])}}

\* C25: no rule types a record rico:Person or rico:Agent: a rule that assigns rdf:type
\* with the fixed object rico:Person or rico:Agent, in short form or as the full
\* identifier, is skipped for every row, and the type triples of Person and Agent are
\* those of the entities the disambiguation logic creates
C25_NoAgentTypeFromRule ==
    \A t \in g :
        (t[2] = RDF_type /\ t[3] \in {URIRef(RICO_Person), URIRef(RICO_Agent)})
        => t[1] \notin record_uris

\* ------------------------------------------------------------------ C26

\* C26: a subject linked by a beginning-date, end-date or creation-date triple to a
\* Date entity carries every normalized date value of that entity as a triple of its
\* own, also when the entity was first created for another row
C26_DateShortcutOnSubject ==
    \A t \in g :
        (t[2] \in {RICO_HAS_BEGIN_DATE, RICO_HAS_END_DATE, RICO_HAS_CREATION_DATE}
         /\ t[3].k = "uri")
        => \A norm \in Objects(g, t[3].v, RICO_NORMALIZED_DATE) :
               InGraph(g, t[1], RICO_NORMALIZED_DATE, norm)

\* ------------------------------------------------------------------ C27

\* the triples a pair writes from its own subject with the rule's predicate, whatever
\* the graph holds: the primary triple, or the links to the range children
own_links(rule, row) ==
    LET reg == get_namespace_registry(prefixes, RuleCell(rule.predicate))
        subj_uri == subj_uri_of(subj_val_of(rule, instances_dfs[sheet_lower_of(sheet)], row))
        final_pred == rule_pred(reg, RuleCell(rule.predicate))
    IN  {t \in loop_adds({}, rule, row, GeoMiss) : t[1] = subj_uri /\ t[2] = final_pred}

\* C27: a pair whose own links are in the graph has been applied; applying it again,
\* at any later point of the run and whatever the gazetteer answers, adds no triple
C27_PairIdempotent ==
    sheet # NoSheet =>
        \A rule \in rules_applied, row \in sheet_rows :
            (/\ ~row_missing(rule, instances_dfs[sheet_lower_of(sheet)], row)
             /\ own_links(rule, row) \subseteq g)
            => \A geo \in geo_answers(rule) : loop_adds(g, rule, row, geo) \subseteq g

\* record D1 has been linked to the place Bologna, which the gazetteer did not know,
\* and a second record has been processed since
C27_Witness ==
    /\ sheet # NoSheet
    /\ sheet_lower_of(sheet) = <<"d", "o", "c", "u", "m", "e", "n", "t", "o">>
    /\ InGraph(g, BASE_NS \o <<"D", "1">>, RICO_ASSOC_PLACE_URI, URIRef(BASE_NS \o <<"p", "l", "a", "c", "e", "/", "B", "o", "l", "o", "g", "n", "a">>))
    /\ Objects(g, BASE_NS \o <<"p", "l", "a", "c", "e", "/", "B", "o", "l", "o", "g", "n", "a">>, OWL_sameAs) = {}
    /\ nrows = 2

====
